---- MODULE Spec2Model ----
(***************************************************************************)
(* hungry_shift_helper: the polling loop of run.py, the Storage cache, the *)
(* HungryAPI adapter, the RecurringTimeslot predicate and the timeslot     *)
(* dialogue of timeslot_creator.py.                                        *)
(*                                                                         *)
(* The specifications share the variables:                                 *)
(*   Spec          the polling loop of run.py from its first statement     *)
(*                 (line 65) to the place where the cycle leaves the try   *)
(*                 block, with the error handler and the sleep;            *)
(*   SpecMatch     the matching, claiming and notifying part of the loop   *)
(*                 body (run.py lines 84-108) as a function of the new     *)
(*                 shifts, the stored timeslots and --auto-take;           *)
(*   SpecTimeslot  RecurringTimeslot.is_valid_shift as a pure function;    *)
(*   SpecCycle     the loop body from both places, Spec and SpecMatch;     *)
(*   SpecRelist    the loop body from line 84, and the cycle after it;     *)
(*   SpecStartup   main() from Storage() (line 47) to the loop;            *)
(*   SpecShiftEq   Shift.__eq__ and Shift.__hash__ as pure functions;      *)
(*   SpecSerialize serialize followed by deserialize, of Shift and of      *)
(*                 RecurringTimeslot;                                      *)
(*   SpecCreate    create_timeslot() of timeslot_creator.py;               *)
(*   SpecGetShifts HungryAPI.get_shifts as a function of the two listings; *)
(*   SpecStore     the operations of Storage that write cache and files;   *)
(*   SpecEditor    main() of timeslot_creator.py, the menu of the editor.  *)
(*                                                                         *)
(* A datetime is a number of seconds since a Monday 00:00:00; a time of    *)
(* day is a number of seconds since 00:00:00.  A Python set of Shift       *)
(* objects is a set of records holding at most one record per id, because  *)
(* Shift.__eq__ and Shift.__hash__ look at the id only.                    *)
(***************************************************************************)
EXTENDS Integers, Sequences, FiniteSets, TLC

VARIABLES
    pc,              \* position of timeslot_creator.py main(): "menu", then "exited","crashed"; position of run.py main(): "storage","confirm","timeslots","loop","unassigned","diff","match","take","notify","except","sleep","done","crashed","exited"; of a method call: "call", then "returned","compared","restored"; of create_timeslot(): "days","clocks","minimum", then "returned","interrupted"
    cycle,           \* number of the current pass through the while loop (1-based)
    now,             \* time.time()
    frequency,       \* args.frequency: None or seconds
    auto_take,       \* args.auto_take
    shiftsFile,      \* data/shifts.json
    storage,         \* Storage(): the cache fields _shifts, _recurring_timeslots, _token, _token_expiration, _city_id
    swap_shifts,     \* HungryAPI.get_shifts local: the normalised swap listing
    shifts,          \* run.py local: the set hungry.get_shifts() returned in this cycle
    saved_shifts,    \* run.py local: storage.shifts as read in this cycle
    new_shifts,      \* run.py local: the shifts not seen before
    valid_shifts,    \* run.py local: the new shifts some timeslot accepts
    requests,        \* HTTP requests sent in this cycle, in order
    responses,       \* what the service answered to each of them, in the same order
    attempts,        \* hungry.take_shift calls of this cycle, in order, with their outcome
    notifications,   \* appriseObj.notify calls of this cycle, in order
    progress,        \* how far the try block of this cycle got: "none","fetched","diffed","saved","matched","taken","notified"; SpecStore: the store operation that returned last
    history,         \* per cycle that left the try statement: what was fetched and what was found new
    tsIn,            \* SpecTimeslot: the timeslot is_valid_shift is applied to
    startIn,         \* SpecTimeslot: the start argument
    endIn,           \* SpecTimeslot: the end argument
    verdict,         \* SpecTimeslot: "none" before the call, then "True" or "False"
    uncaught,        \* the line of run.py (SpecEditor: of timeslot_creator.py) at which an exception left main(): None while there is none
    timeslotsFile,   \* data/recurring_timeslots.json
    tokenFile,       \* data/token.json
    objIn,           \* SpecShiftEq, SpecSerialize: the objects the methods are applied to
    result,          \* SpecShiftEq, SpecSerialize, SpecCreate: what the methods returned
    days_of_the_week,\* create_timeslot local: the days entered
    start_time,      \* create_timeslot local: the start clock entered
    end_time,        \* create_timeslot local: the end clock entered
    printed,         \* what the last step of main() printed for the user, in order
    user_input,      \* timeslot_creator.py main local: the option entered, None before any and for a text that is no number
    timeslot_number  \* timeslot_creator.py main local: the number entered for a deletion, None before any and for a text that is no number

vars == <<pc, cycle, now, frequency, auto_take, shiftsFile, storage,
          swap_shifts, shifts, saved_shifts, new_shifts, valid_shifts, requests,
          responses, attempts, notifications, progress, history, tsIn, startIn,
          endIn, verdict, uncaught, timeslotsFile, tokenFile, objIn, result,
          days_of_the_week, start_time, end_time, printed, user_input,
          timeslot_number>>

----------------------------------------------------------------------------
(* Bounds of the model *)

\* polling cycles explored
MaxCycles == 3
\* records in one listing response
MaxResp == 2
\* timeslots held by the store in SpecMatch
MaxSlots == 2
\* days the timestamps of SpecTimeslot span (day 0 is a Monday)
MaxDay == 2
\* ids of the shifts Shift.__eq__ is applied to in SpecShiftEq
MaxId == 2

----------------------------------------------------------------------------
(* Python values *)

\* None, and a present number, for Optional fields
None == [some |-> FALSE, v |-> 0]
Some(n) == [some |-> TRUE, v |-> n]

SecondsPerDay == 86400
SecondsPerMinute == 60

\* datetime.time(h, m, s) as seconds since midnight
Clock(h, m, s) == h * 3600 + m * SecondsPerMinute + s
\* datetime(day, h, m, s): day 0 is a Monday
At(day, h, m, s) == day * SecondsPerDay + Clock(h, m, s)

\* datetime.weekday(): Monday is 0
Weekday(t) == (t \div SecondsPerDay) % 7
\* datetime.time()
TimeOfDay(t) == t % SecondsPerDay
\* timedelta.seconds of (a - b): the seconds field of the normalised
\* (days, seconds) pair, 0 <= seconds < 86400; the days field is not in it
TimedeltaSeconds(a, b) == (a - b) % SecondsPerDay

----------------------------------------------------------------------------
(* hungry/timeslot.py: RecurringTimeslot *)

\* RecurringTimeslot(recurring_days, start, end, min_minutes)
RecurringTimeslot(days, start, end, min_minutes) ==
    [recurring_days |-> days, start |-> start, end |-> end,
     min_minutes |-> min_minutes]

\* The comparison of the time of day of the shift's start with the window's
\* start, and of the shift's end with the window's end (timeslot.py line 67).
\* (OutsideClockExclusive is the same test with the bounds left out.)
OutsideClockExclusive(ts, start, end) ==
    TimeOfDay(start) <= ts.start \/ TimeOfDay(end) >= ts.end
OutsideClock(ts, start, end) ==
    TimeOfDay(start) < ts.start \/ TimeOfDay(end) > ts.end

\* (end - start).seconds / 60 < self.min_minutes  (timeslot.py line 71); the
\* division is a float division, so the test is seconds < 60 * min_minutes
TooShort(ts, start, end) ==
    TimedeltaSeconds(end, start) < SecondsPerMinute * ts.min_minutes

\* RecurringTimeslot.is_valid_shift(start, end)
is_valid_shift(ts, start, end) ==
    IF Weekday(start) \notin ts.recurring_days THEN FALSE
    ELSE IF OutsideClock(ts, start, end) THEN FALSE
    ELSE IF TooShort(ts, start, end) THEN FALSE
    ELSE TRUE

\* run.py get_eternal_timeslot(): every day, 00:00-23:59, no minimum
get_eternal_timeslot ==
    RecurringTimeslot({0, 1, 2, 3, 4, 5, 6}, Clock(0, 0, 0), Clock(23, 59, 0), 0)

\* time.strftime("%H:%M"): the hour and the minute of a time of day
StrftimeHM(c) == [h |-> c \div 3600, m |-> (c % 3600) \div 60]
\* datetime.strptime(text, "%H:%M").time(); strptime raises ValueError for a
\* text that is not an hour 0..23 and a minute 0..59
StrptimeRaises(x) == x.h \notin 0..23 \/ x.m \notin 0..59
StrptimeHM(x) == Clock(x.h, x.m, 0)

\* RecurringTimeslot.serialize() and RecurringTimeslot.deserialize(json_data)
RecurringTimeslotSerialize(ts) ==
    [start |-> StrftimeHM(ts.start), end |-> StrftimeHM(ts.end),
     days |-> ts.recurring_days, min_minutes |-> ts.min_minutes]
RecurringTimeslotKeys == {"start", "end", "days", "min_minutes"}
\* json_data[...] raises KeyError for a key the record lacks
RecurringTimeslotDeserializeRaises(j) ==
    \/ ~ (RecurringTimeslotKeys \subseteq DOMAIN j)
    \/ StrptimeRaises(j.start)
    \/ StrptimeRaises(j.end)
RecurringTimeslotDeserialize(j) ==
    RecurringTimeslot(j.days, StrptimeHM(j.start), StrptimeHM(j.end),
                      j.min_minutes)

----------------------------------------------------------------------------
(* hungry/shift.py: Shift *)

\* Shift(id, start, end, status, time_zone, starting_point_id,
\* starting_point_name)
Shift(id, start, end, status, time_zone, starting_point_id, starting_point_name) ==
    [id |-> id, start |-> start, end |-> end, status |-> status,
     time_zone |-> time_zone, starting_point_id |-> starting_point_id,
     starting_point_name |-> starting_point_name]

\* Shift.__eq__: equal ids.  (ShiftEqByFields is the comparison Python makes
\* of two plain data objects, field by field.)
ShiftEqByFields(a, b) == a = b
ShiftEq(a, b) == a.id = b.id

\* Shift.__hash__: hash(self.id), which for the ids the service gives
\* (positive integers below 2^61 - 1) is the id.  (ShiftHashByFields is the
\* hash of an object hashed over its id and its start.)
ShiftHashByFields(s) == s.id + s.start
ShiftHash(s) == s.id

\* shift in a list of shifts: list.__contains__ compares with __eq__
InList(shift, list) == \E i \in 1..Len(list) : ShiftEq(list[i], shift)

\* set.add(shift): an equal element already in the set is kept
SetAdd(set, shift) ==
    IF \E x \in set : ShiftEq(x, shift) THEN set ELSE set \cup {shift}

\* a.union(b): a copy of a to which the elements of b are added.
\* (SetUnionByFields is the union of objects compared field by field.)
SetUnionByFields(a, b) == a \cup b
SetUnion(a, b) == a \cup {y \in b : ~ \E x \in a : ShiftEq(x, y)}

\* the ids of a set, and of a list, of shifts
IdsOf(set) == {x.id : x \in set}
IdsOfList(list) == {list[i].id : i \in 1..Len(list)}

\* Shift.serialize / Shift.deserialize: the timestamps go through
\* datetime.isoformat() and datetime.fromisoformat(), a date and a time of day
IsoFormat(t) == [date |-> t \div SecondsPerDay, time |-> t % SecondsPerDay]
FromIsoFormat(iso) == iso.date * SecondsPerDay + iso.time
ShiftSerialize(s) ==
    [id |-> s.id, start |-> IsoFormat(s.start), end |-> IsoFormat(s.end),
     status |-> s.status, time_zone |-> s.time_zone,
     starting_point_id |-> s.starting_point_id,
     starting_point_name |-> s.starting_point_name]
ShiftKeys ==
    {"id", "start", "end", "status", "time_zone", "starting_point_id",
     "starting_point_name"}
\* datetime.fromisoformat raises ValueError for a text that is no date and
\* time of day
FromIsoFormatRaises(iso) == iso.date < 0 \/ iso.time \notin 0..(SecondsPerDay - 1)
\* json_data[...] raises KeyError for a key the record lacks
ShiftDeserializeRaises(j) ==
    \/ ~ (ShiftKeys \subseteq DOMAIN j)
    \/ FromIsoFormatRaises(j.start)
    \/ FromIsoFormatRaises(j.end)
ShiftDeserialize(j) ==
    Shift(j.id, FromIsoFormat(j.start), FromIsoFormat(j.end), j.status,
          j.time_zone, j.starting_point_id, j.starting_point_name)

----------------------------------------------------------------------------
(* hungry/Storage.py: Storage *)

\* The attributes Storage defines with @property and no setter
StorageProperties ==
    {"city_id", "recurring_timeslots", "shifts", "token", "token_expiration"}

\* storage.<name> = value from outside the class.  A property without a
\* setter raises AttributeError and changes nothing; any other name becomes
\* a plain instance attribute, which is none of the cache fields
\* (_shifts, _recurring_timeslots, _token, _token_expiration, _city_id).
StorageSetAttr(st, name, value) ==
    IF name \in StorageProperties
    THEN [raised |-> TRUE, storage |-> st]
    ELSE [raised |-> FALSE, storage |-> st]

\* The cache of a Storage object
Cache(sh, slots, token, expires, city) ==
    [_shifts |-> sh, _recurring_timeslots |-> slots, _token |-> token,
     _token_expiration |-> expires, _city_id |-> city]

\* What a call gives: a value it returns, or an exception that leaves it
\* (value is then what the caller keeps, the value it had before)
Return(v) == [raised |-> FALSE, value |-> v]
Raise(v) == [raised |-> TRUE, value |-> v]

\* The exceptions a loader turns into the empty default: FileNotFoundError
\* (the file is absent) and json.decoder.JSONDecodeError (the file is not
\* JSON).  An exception of the comprehension over the records, KeyError or
\* ValueError, is none of the two.
LoaderCatches(error) == error \in {"FileNotFoundError", "JSONDecodeError"}

\* Storage._load_shifts(): [] when the file is absent or is not JSON
RECURSIVE DeserializeAll(_)
DeserializeAll(data) ==
    IF data = <<>> THEN <<>>
    ELSE <<ShiftDeserialize(Head(data))>> \o DeserializeAll(Tail(data))
load_shifts(file) ==
    IF file.kind = "absent"
    THEN IF LoaderCatches("FileNotFoundError") THEN Return(<<>>) ELSE Raise(<<>>)
    ELSE IF file.kind = "corrupt"
    THEN IF LoaderCatches("JSONDecodeError") THEN Return(<<>>) ELSE Raise(<<>>)
    ELSE IF \E i \in 1..Len(file.data) : ShiftDeserializeRaises(file.data[i])
    THEN IF LoaderCatches("KeyError") THEN Return(<<>>) ELSE Raise(<<>>)
    ELSE Return(DeserializeAll(file.data))

\* Storage._load_recurring_timeslots(), likewise
RECURSIVE DeserializeAllTimeslots(_)
DeserializeAllTimeslots(data) ==
    IF data = <<>> THEN <<>>
    ELSE <<RecurringTimeslotDeserialize(Head(data))>>
         \o DeserializeAllTimeslots(Tail(data))
load_recurring_timeslots(file) ==
    IF file.kind = "absent"
    THEN IF LoaderCatches("FileNotFoundError") THEN Return(<<>>) ELSE Raise(<<>>)
    ELSE IF file.kind = "corrupt"
    THEN IF LoaderCatches("JSONDecodeError") THEN Return(<<>>) ELSE Raise(<<>>)
    ELSE IF \E i \in 1..Len(file.data) :
                RecurringTimeslotDeserializeRaises(file.data[i])
    THEN IF LoaderCatches("KeyError") THEN Return(<<>>) ELSE Raise(<<>>)
    ELSE Return(DeserializeAllTimeslots(file.data))

\* Storage._load_token_and_cityid(): (token, expiry, city_id), or
\* (None, None, None) when the file is absent or is not JSON; the file holds
\* one JSON object
TokenKeys == {"token", "expires", "city_id"}
NoToken == [token |-> None, expires |-> None, city_id |-> None]
load_token_and_cityid(file) ==
    IF file.kind = "absent"
    THEN IF LoaderCatches("FileNotFoundError") THEN Return(NoToken) ELSE Raise(NoToken)
    ELSE IF file.kind = "corrupt"
    THEN IF LoaderCatches("JSONDecodeError") THEN Return(NoToken) ELSE Raise(NoToken)
    ELSE IF ~ (TokenKeys \subseteq DOMAIN file.data)
    THEN IF LoaderCatches("KeyError") THEN Return(NoToken) ELSE Raise(NoToken)
    ELSE Return([token |-> Some(file.data.token),
                 expires |-> Some(file.data.expires),
                 city_id |-> Some(file.data.city_id)])

\* Storage.save_recurring_timeslots writes [ts.serialize() for ts in timeslots]
RECURSIVE SerializeAllTimeslots(_)
SerializeAllTimeslots(slots) ==
    IF slots = <<>> THEN <<>>
    ELSE <<RecurringTimeslotSerialize(Head(slots))>>
         \o SerializeAllTimeslots(Tail(slots))

\* A file that holds JSON, an absent file, a file that is not JSON
JsonFile(data) == [kind |-> "json", data |-> data]
AbsentFile == [kind |-> "absent", data |-> <<>>]
CorruptFile == [kind |-> "corrupt", data |-> <<>>]

\* data/token.json as save_token_and_cityid writes it
TokenJson(token, expires, city) ==
    JsonFile([token |-> token, expires |-> expires, city_id |-> city])

\* Storage.__init__: the empty cache, then _load_to_cache(), which loads the
\* timeslots, the shifts and the token in this order; an exception of a
\* loader leaves the constructor
StorageInit(tsFile, shFile, tkFile) ==
    LET slots == load_recurring_timeslots(tsFile)
        sh == load_shifts(shFile)
        tk == load_token_and_cityid(tkFile)
    IN  IF slots.raised \/ sh.raised \/ tk.raised
        THEN Raise(Cache(<<>>, <<>>, None, None, None))
        ELSE Return(Cache(sh.value, slots.value, tk.value.token,
                          tk.value.expires, tk.value.city_id))

\* Storage.get_shifts(): the cache; when the cache is empty the file is read
\* and what was read is dropped.  The file is the one Storage() loaded the
\* cache from, so the read raises nothing it did not raise then.
get_shifts(st) == st._shifts

\* Storage.get_recurring_timeslots(): the cache, likewise
get_recurring_timeslots(st) == st._recurring_timeslots

\* Storage.get_token_and_cityid(): the cache, likewise
get_token_and_cityid(st) ==
    [token |-> st._token, expires |-> st._token_expiration,
     city_id |-> st._city_id]

\* Storage.save_shifts writes [s.serialize() for s in shifts]
RECURSIVE SerializeAllShifts(_)
SerializeAllShifts(list) ==
    IF list = <<>> THEN <<>>
    ELSE <<ShiftSerialize(Head(list))>> \o SerializeAllShifts(Tail(list))

\* What a store operation leaves: the cache, and the file it wrote
Stored2(st, file) == [storage |-> st, file |-> file, raised |-> FALSE]

\* Storage.save_recurring_timeslots(timeslots): the file, then the cache
save_recurring_timeslots(st, timeslots) ==
    Stored2([st EXCEPT !._recurring_timeslots = timeslots],
            JsonFile(SerializeAllTimeslots(timeslots)))

\* Storage.save_shifts(shifts): the file, then the cache
save_shifts(st, list) ==
    Stored2([st EXCEPT !._shifts = list], JsonFile(SerializeAllShifts(list)))

\* Storage.save_token_and_cityid(token, expires, city_id)
save_token_and_cityid(st, token, expires, city) ==
    Stored2([st EXCEPT !._token = Some(token),
                       !._token_expiration = Some(expires),
                       !._city_id = Some(city)],
            TokenJson(token, expires, city))

\* Storage.add_recurring_timeslot(timeslot): append to the cache, save it
add_recurring_timeslot(st, timeslot) ==
    save_recurring_timeslots(st, Append(st._recurring_timeslots, timeslot))

\* Storage.add_shift(shift)
add_shift(st, shift) == save_shifts(st, Append(st._shifts, shift))

\* list.remove(x) for the x at place i of the list.  RecurringTimeslot has
\* no __eq__, so remove() looks for the object itself, and every element of
\* the list is an object of its own (each is made by its own constructor
\* call): the element at place i goes, the others keep their order.
RemoveAt(list, i) == SubSeq(list, 1, i - 1) \o SubSeq(list, i + 1, Len(list))

\* Storage.delete_recurring_timeslot(timeslot), for the timeslot at place i
\* of the cache; place 0 stands for a timeslot that is not in the cache, for
\* which remove() raises ValueError before anything is written (file is
\* the timeslot file as it is)
delete_recurring_timeslot(st, file, i) ==
    IF i \notin 1..Len(st._recurring_timeslots)
    THEN [storage |-> st, file |-> file, raised |-> TRUE]
    ELSE save_recurring_timeslots(st, RemoveAt(st._recurring_timeslots, i))

----------------------------------------------------------------------------
(* hungry/hungryAPI.py: HungryAPI *)

\* refresh_token: the test that sends the call through authenticate() first
TokenExpired(st, t) ==
    ~ st._token_expiration.some \/ t > st._token_expiration.v

\* What the authentication endpoint may answer
AuthResponses == {"http_error", "ok"}

\* HungryAPI.TOKEN_EXPIRY_SECONDS (line 28)
TOKEN_EXPIRY_SECONDS == 3500

\* resp.json() of an authentication the service accepted
AuthJson == [token |-> 2, city_id |-> 2]

\* HungryAPI.authenticate(): the POST, raise_for_status(), and then three
\* assignments to properties of Storage().  Any exception of the try block,
\* the AttributeError of the first assignment included, is turned into
\* Exception("Failed to authenticate! Wrong credentials?").
\* (authenticateKeepsExpiry is an authenticate that fails after it has noted
\* the expiry in the store.)
authenticateKeepsExpiry(st, t, resp) ==
    [raised |-> TRUE,
     storage |-> [st EXCEPT !._token_expiration = Some(t + TOKEN_EXPIRY_SECONDS)]]
authenticate(st, t, resp) ==
    IF resp = "http_error"
    THEN [raised |-> TRUE, storage |-> st]
    ELSE LET w1 == StorageSetAttr(st, "token", AuthJson.token)
             w2 == StorageSetAttr(w1.storage, "token_expiration",
                                  t + TOKEN_EXPIRY_SECONDS)
             w3 == StorageSetAttr(w2.storage, "city_id", AuthJson.city_id)
         IN  IF w1.raised THEN [raised |-> TRUE, storage |-> w1.storage]
             ELSE IF w2.raised THEN [raised |-> TRUE, storage |-> w2.storage]
             ELSE IF w3.raised THEN [raised |-> TRUE, storage |-> w3.storage]
             ELSE [raised |-> FALSE, storage |-> w3.storage]

\* the refresh_token wrapper in front of a decorated call
refresh_token(st, t, resp) ==
    IF TokenExpired(st, t)
    THEN authenticate(st, t, resp) @@ [called |-> TRUE]
    ELSE [raised |-> FALSE, storage |-> st, called |-> FALSE]

\* One record of a listing response.  ok = FALSE is a record that lacks one
\* of the keys _resp_to_shifts reads or holds a timestamp strptime rejects.
Raw(ok, s) == [ok |-> ok, id |-> s.id, start |-> s.start, end |-> s.end,
               state |-> s.status, time_zone |-> s.time_zone,
               starting_point_id |-> s.starting_point_id,
               starting_point_name |-> s.starting_point_name]

\* HungryAPI._resp_to_shifts(shifts): raises at the first malformed record.
\* (resp_to_shifts_skipping is the loop that leaves such a record out.)
RECURSIVE resp_to_shifts_skipping(_, _)
resp_to_shifts_skipping(acc, list) ==
    IF list = <<>> THEN [raised |-> FALSE, set |-> acc]
    ELSE IF ~ Head(list).ok THEN resp_to_shifts_skipping(acc, Tail(list))
    ELSE resp_to_shifts_skipping(
             SetAdd(acc, Shift(Head(list).id, Head(list).start,
                               Head(list).end, Head(list).state,
                               Head(list).time_zone,
                               Head(list).starting_point_id,
                               Head(list).starting_point_name)),
             Tail(list))
RECURSIVE resp_to_shifts_from(_, _)
resp_to_shifts_from(acc, list) ==
    IF list = <<>> THEN [raised |-> FALSE, set |-> acc]
    ELSE IF ~ Head(list).ok THEN [raised |-> TRUE, set |-> acc]
    ELSE resp_to_shifts_from(
             SetAdd(acc, Shift(Head(list).id, Head(list).start,
                               Head(list).end, Head(list).state,
                               Head(list).time_zone,
                               Head(list).starting_point_id,
                               Head(list).starting_point_name)),
             Tail(list))
resp_to_shifts(list) == resp_to_shifts_from({}, list)

\* What the log of answers holds for a listing request: the status, and
\* "malformed" for an accepted request whose body holds a record that lacks
\* a key or holds a timestamp strptime rejects
Malformed(body) == \E i \in 1..Len(body) : ~ body[i].ok
Answer(resp) ==
    IF resp.status = "ok" /\ Malformed(resp.body) THEN "malformed"
    ELSE resp.status

----------------------------------------------------------------------------
(* The inputs the specifications draw from *)

\* Shifts the service may list.  Shift 1 is listed as an open swap and, once
\* somebody took it, as ASSIGNED: two records with one id.
ShiftMon ==
    Shift(1, At(0, 10, 0, 0), At(0, 12, 0, 0), "PENDING",
          "Europe/Copenhagen", 1, "Centrum")
ShiftMonTaken ==
    Shift(1, At(0, 10, 0, 0), At(0, 12, 0, 0), "ASSIGNED",
          "Europe/Copenhagen", 1, "Centrum")
ShiftTue ==
    Shift(2, At(1, 10, 0, 0), At(1, 12, 0, 0), "UNASSIGNED",
          "Europe/Copenhagen", 2, "Nord")
ShiftShort ==
    Shift(3, At(0, 16, 30, 0), At(0, 16, 45, 0), "ASSIGNED",
          "Europe/Copenhagen", 1, "Centrum")

ListedShifts == {ShiftMon, ShiftMonTaken, ShiftTue}

\* The records of a listing: the listed shifts, and one malformed record
RawRecords == {Raw(TRUE, s) : s \in ListedShifts} \cup {Raw(FALSE, ShiftTue)}

\* All sequences over S of length at most n
RECURSIVE SeqsUpTo(_, _)
SeqsUpTo(S, n) ==
    IF n = 0 THEN {<<>>}
    ELSE LET shorter == SeqsUpTo(S, n - 1) IN
         shorter \cup {Append(q, x) : q \in {r \in shorter : Len(r) = n - 1}, x \in S}

\* What a listing endpoint may answer: an HTTP error, or a list of records
Responses ==
    {[status |-> "http_error", body |-> <<>>]}
    \cup {[status |-> "ok", body |-> b] : b \in SeqsUpTo(RawRecords, MaxResp)}

\* data/shifts.json when the process starts: absent, not JSON, or the list a
\* former run saved
ShiftsFiles ==
    {[kind |-> "absent", data |-> <<>>],
     [kind |-> "corrupt", data |-> <<>>],
     [kind |-> "json", data |-> <<ShiftSerialize(ShiftMonTaken)>>],
     [kind |-> "json", data |-> <<ShiftSerialize(ShiftMon), ShiftSerialize(ShiftTue)>>]}

\* The token expiry data/token.json holds when the process starts: none, one
\* that passes after the first cycle, one that outlasts the run
TokenExpirations == {None, Some(1), Some(MaxCycles)}

\* args.frequency: not given, 0, a number of seconds
Frequencies == {None, Some(0), Some(1)}

\* The outcomes of appriseObj.notify(): delivered, not delivered, raised
NotifyOutcomes == {"sent", "failed", "raised"}

----------------------------------------------------------------------------
(* run.py: the polling loop of main() *)

\* [shift for shift in shifts if shift not in saved_shifts]  (line 78).
\* (DiffNewAll is the loop without the comparison.)
DiffNewAll(current, previous) == current
DiffNew(current, previous) == {s \in current : ~ InList(s, previous)}

\* What a cycle leaves in the history when it leaves the try statement: how
\* far it got (p) and the notifications it sent (notes)
Summary(p, notes) ==
    [fetched |-> p # "none",
     ids |-> IF p # "none" THEN IdsOf(shifts) ELSE {},
     new |-> IF p \in {"none", "fetched"} THEN {} ELSE IdsOf(new_shifts),
     claims |-> Len(attempts),
     failed |-> {attempts[i].shift.id :
                    i \in {k \in 1..Len(attempts) : attempts[k].raised}},
     notified |-> Cardinality({i \in 1..Len(notes) : notes[i].kind = "shifts"}),
     progress |-> p]

TimeslotVars == <<tsIn, startIn, endIn, verdict>>
StartupVars == <<timeslotsFile, tokenFile>>
CallVars == <<objIn, result>>
EditorVars == <<days_of_the_week, start_time, end_time>>
ConsoleVars == <<printed, user_input, timeslot_number>>
OtherVars == <<TimeslotVars, StartupVars, CallVars, EditorVars, ConsoleVars>>
ArgVars == <<frequency, auto_take>>

\* The locals of create_timeslot() while it does not run, and a console
\* nothing was printed on
EditorAtRest ==
    /\ days_of_the_week = {}
    /\ start_time = 0
    /\ end_time = 0
    /\ printed = <<>>
    /\ user_input = None
    /\ timeslot_number = None

\* line 67, first half: hungry.get_shifts() requests and normalises the swaps
GetSwapShifts ==
    /\ pc = "loop"
    /\ \E auth \in AuthResponses, resp \in Responses :
         LET a == refresh_token(storage, now, auth)
             sent == IF a.called THEN <<"auth">> ELSE <<>>
             answered == IF a.called THEN <<auth>> ELSE <<>>
             r == resp_to_shifts(resp.body)
         IN  /\ storage' = a.storage
             /\ IF a.raised
                THEN /\ requests' = requests \o sent
                     /\ responses' = responses \o answered
                     /\ pc' = "except"
                     /\ UNCHANGED swap_shifts
                ELSE /\ requests' = requests \o sent \o <<"swaps">>
                     /\ responses' = responses \o answered \o <<Answer(resp)>>
                     /\ IF resp.status = "http_error" \/ r.raised
                        THEN pc' = "except" /\ UNCHANGED swap_shifts
                        ELSE pc' = "unassigned" /\ swap_shifts' = r.set
    /\ UNCHANGED <<cycle, now, ArgVars, shiftsFile, shifts, saved_shifts,
                   new_shifts, valid_shifts, attempts, notifications,
                   progress, history, uncaught, OtherVars>>

\* line 67, second half: the unassigned listing, and the union of the two
GetUnassignedShifts ==
    /\ pc = "unassigned"
    /\ \E auth \in AuthResponses, resp \in Responses :
         LET a == refresh_token(storage, now, auth)
             sent == IF a.called THEN <<"auth">> ELSE <<>>
             answered == IF a.called THEN <<auth>> ELSE <<>>
             r == resp_to_shifts(resp.body)
         IN  /\ storage' = a.storage
             /\ IF a.raised
                THEN /\ requests' = requests \o sent
                     /\ responses' = responses \o answered
                     /\ pc' = "except"
                     /\ UNCHANGED <<shifts, progress>>
                ELSE /\ requests' = requests \o sent \o <<"unassigned">>
                     /\ responses' = responses \o answered \o <<Answer(resp)>>
                     /\ IF resp.status = "http_error" \/ r.raised
                        THEN pc' = "except" /\ UNCHANGED <<shifts, progress>>
                        ELSE /\ pc' = "diff"
                             /\ shifts' = SetUnion(swap_shifts, r.set)
                             /\ progress' = "fetched"
    /\ UNCHANGED <<cycle, now, ArgVars, shiftsFile, swap_shifts, saved_shifts,
                   new_shifts, valid_shifts, attempts, notifications,
                   history, uncaught, OtherVars>>

\* lines 73-82: read the stored shifts, find the new ones, store the fetched
\* set with storage.shifts = shifts
DiffAndSave ==
    /\ pc = "diff"
    /\ saved_shifts' = get_shifts(storage)
    /\ new_shifts' = DiffNew(shifts, get_shifts(storage))
    /\ LET w == StorageSetAttr(storage, "shifts", shifts) IN
         IF w.raised
         THEN /\ pc' = "except"
              /\ progress' = "diffed"
              /\ UNCHANGED storage
         ELSE /\ pc' = "match"
              /\ progress' = "saved"
              /\ storage' = w.storage
    /\ UNCHANGED <<cycle, now, ArgVars, shiftsFile, swap_shifts, shifts,
                   valid_shifts, requests, responses, attempts, notifications,
                   history, uncaught, OtherVars>>

\* lines 113-118: log the error and report it with one notification; an
\* exception of that notification is logged
\* (ErrorNotifyEscapesUnguarded is the handler without the inner try.)
ErrorNotifyEscapesUnguarded(out) == out = "raised"
ErrorNotifyEscapes(out) == FALSE
HandleError ==
    /\ pc = "except"
    /\ \E out \in NotifyOutcomes :
         /\ notifications' = Append(notifications, [kind |-> "error", outcome |-> out])
         /\ IF ErrorNotifyEscapes(out)
            THEN pc' = "crashed" /\ uncaught' = Some(116)
            ELSE pc' = "sleep" /\ UNCHANGED uncaught
    /\ history' = Append(history, Summary(progress, notifications))
    /\ UNCHANGED <<cycle, now, ArgVars, shiftsFile, storage, swap_shifts,
                   shifts, saved_shifts, new_shifts, valid_shifts, requests,
                   responses, attempts, progress, OtherVars>>

\* lines 109-111 and 119-123: leave the loop when no frequency is given,
\* else sleep and start the next cycle
\* `if args.frequency:` (line 120): a frequency that is given and is not 0.
\* (SleepsAlways is the loop without the test.)
SleepsAlways(freq) == TRUE
Sleeps(freq) == freq.some /\ freq.v # 0
Sleep ==
    /\ pc = "sleep"
    /\ IF Sleeps(frequency)
       THEN /\ cycle < MaxCycles
            /\ cycle' = cycle + 1
            /\ now' = now + frequency.v
            /\ pc' = "loop"
            /\ requests' = <<>>
            /\ responses' = <<>>
            /\ attempts' = <<>>
            /\ notifications' = <<>>
            /\ progress' = "none"
       ELSE /\ pc' = "done"
            /\ UNCHANGED <<cycle, now, requests, responses, attempts,
                           notifications, progress>>
    /\ UNCHANGED <<ArgVars, shiftsFile, storage, swap_shifts, shifts,
                   saved_shifts, new_shifts, valid_shifts, history,
                   uncaught, OtherVars>>

\* The state in which the while loop of main() is entered: the store as
\* Storage() loaded it from the files of the data directory, the arguments as
\* given.  The start-up of main() (lines 38-60) is not part of this
\* specification.  HungryAPI.__init__ calls authenticate() too, which raises
\* with the code as it stands (see authenticate), so the specification
\* describes the loop for a HungryAPI object that exists and a data directory
\* that may hold a token written before.
Init ==
    /\ pc = "loop"
    /\ cycle = 1
    /\ now = 1
    /\ frequency \in Frequencies
    /\ auto_take \in BOOLEAN
    /\ shiftsFile \in ShiftsFiles
    /\ timeslotsFile = JsonFile(SerializeAllTimeslots(<<get_eternal_timeslot>>))
    /\ \E exp \in TokenExpirations :
         tokenFile = IF exp.some THEN TokenJson(1, exp.v, 1) ELSE AbsentFile
    /\ storage = StorageInit(timeslotsFile, shiftsFile, tokenFile).value
    /\ swap_shifts = {}
    /\ shifts = {}
    /\ saved_shifts = <<>>
    /\ new_shifts = {}
    /\ valid_shifts = {}
    /\ requests = <<>>
    /\ responses = <<>>
    /\ uncaught = None
    /\ objIn = <<>>
    /\ result = <<>>
    /\ EditorAtRest
    /\ attempts = <<>>
    /\ notifications = <<>>
    /\ progress = "none"
    /\ history = <<>>
    /\ tsIn = get_eternal_timeslot
    /\ startIn = 0
    /\ endIn = 0
    /\ verdict = "none"

Next == GetSwapShifts \/ GetUnassignedShifts \/ DiffAndSave \/ HandleError \/ Sleep

Spec == Init /\ [][Next]_vars

----------------------------------------------------------------------------
(* hungry/hungryAPI.py: claiming a shift *)

\* The attributes a HungryAPI object has: those __init__ assigns and those
\* of the class
HungryAPIAttrs ==
    {"EMAIL", "PASSWORD", "EMPLOYEE_ID", "URL_SWAPS", "URL_UNASSIGNED",
     "URL_TAKE_SWAP", "URL_TAKE_UNASSIGNED", "APP_VERSION", "APP_SHORT_VERSION",
     "TIMEZONE", "APP_VERSION_DOMAIN", "API_DOMAIN", "URL_AUTH",
     "TOKEN_EXPIRY_SECONDS", "app_version", "app_short_version"}

\* The attributes Shift.__init__ assigns
ShiftAttrs ==
    {"id", "start", "end", "status", "time_zone", "starting_point_id",
     "starting_point_name"}

\* What a claim endpoint may answer
ClaimResponses == {"ok", "http_error"}

\* The outcome of a call: whether it raised, which error, the requests sent
Outcome(raised, error, sent) == [raised |-> raised, error |-> error, sent |-> sent]

\* HungryAPI._take_swap_shift(shift): BearerAuth(self.token) is evaluated
\* before requests.post is called
take_swap_shift(shift, resp) ==
    IF "token" \notin HungryAPIAttrs
    THEN Outcome(TRUE, "AttributeError", <<>>)
    ELSE IF resp = "http_error"
    THEN Outcome(TRUE, "HTTPError", <<"take_swap">>)
    ELSE Outcome(FALSE, "", <<"take_swap">>)

\* HungryAPI._take_unassigned_shift(shift): the body reads shift.start_at and
\* shift.end_at, and BearerAuth(self.token), before requests.post is called
take_unassigned_shift(shift, resp) ==
    IF ~ ({"id", "start_at", "end_at", "starting_point_id"} \subseteq ShiftAttrs)
    THEN Outcome(TRUE, "AttributeError", <<>>)
    ELSE IF "token" \notin HungryAPIAttrs
    THEN Outcome(TRUE, "AttributeError", <<>>)
    ELSE IF resp = "http_error"
    THEN Outcome(TRUE, "HTTPError", <<"take_unassigned">>)
    ELSE Outcome(FALSE, "", <<"take_unassigned">>)

\* HungryAPI.take_shift(shift)
take_shift(shift, resp) ==
    IF shift.status = "PENDING" THEN take_swap_shift(shift, resp)
    ELSE IF shift.status = "UNASSIGNED" THEN take_unassigned_shift(shift, resp)
    ELSE Outcome(TRUE, "Exception", <<>>)

----------------------------------------------------------------------------
(* run.py lines 84-108: match, claim, notify *)

\* lines 85-89: for each timeslot, for each new shift, valid_shifts.add(shift)
\* when the timeslot accepts it
RECURSIVE FilterValidFrom(_, _, _)
FilterValidFrom(acc, candidates, windows) ==
    IF windows = <<>> THEN acc
    ELSE FilterValidFrom(
             SetUnion(acc, {s \in candidates :
                               is_valid_shift(Head(windows), s.start, s.end)}),
             candidates, Tail(windows))
\* two slips of the matching loop: it stops after the first timeslot; it
\* takes "no timeslots" for "no restriction"
FilterValidFirstOnly(candidates, windows) ==
    IF windows = <<>> THEN {}
    ELSE FilterValidFrom({}, candidates, <<Head(windows)>>)
FilterValidAllWhenEmpty(candidates, windows) ==
    IF windows = <<>> THEN candidates
    ELSE FilterValidFrom({}, candidates, windows)
FilterValid(candidates, windows) == FilterValidFrom({}, candidates, windows)

\* The orders in which a for loop may visit a set
Orders(set) ==
    {q \in [1..Cardinality(set) -> set] :
        \A i, j \in 1..Cardinality(set) : q[i] = q[j] => i = j}

\* lines 95-100: take the shifts in the order given; an exception of
\* take_shift leaves the loop
RECURSIVE TakeAllFrom(_, _, _, _)
TakeAllFrom(done, order, i, respOf) ==
    IF i > Len(order) THEN [raised |-> FALSE, attempts |-> done]
    ELSE LET o == take_shift(order[i], respOf[order[i]])
             entry == [shift |-> order[i], resp |-> respOf[order[i]],
                       raised |-> o.raised, error |-> o.error, sent |-> o.sent]
         IN  IF o.raised
             THEN [raised |-> TRUE, attempts |-> Append(done, entry)]
             ELSE TakeAllFrom(Append(done, entry), order, i + 1, respOf)
TakeAll(order, respOf) == TakeAllFrom(<<>>, order, 1, respOf)

\* the requests of a sequence of attempts, in order
RECURSIVE SentBy(_)
SentBy(as) == IF as = <<>> THEN <<>> ELSE Head(as).sent \o SentBy(Tail(as))
\* the answers to them
RECURSIVE AnsweredBy(_)
AnsweredBy(as) ==
    IF as = <<>> THEN <<>>
    ELSE (IF Head(as).sent = <<>> THEN <<>> ELSE <<Head(as).resp>>)
         \o AnsweredBy(Tail(as))

\* lines 84-91: the loops read the list the store returns.
\* (MatchConsuming is the loop that takes each timeslot off that list, which
\* is the list of the store's cache, as it visits it.)
MatchConsuming ==
    /\ pc = "match"
    /\ valid_shifts' = FilterValid(new_shifts, get_recurring_timeslots(storage))
    /\ storage' = [storage EXCEPT !._recurring_timeslots = <<>>]
    /\ progress' = "matched"
    /\ pc' = "take"
    /\ UNCHANGED <<cycle, now, ArgVars, shiftsFile, swap_shifts,
                   shifts, saved_shifts, new_shifts, requests, responses,
                   attempts, notifications, history, uncaught, OtherVars>>
Match ==
    /\ pc = "match"
    /\ valid_shifts' = FilterValid(new_shifts, get_recurring_timeslots(storage))
    /\ progress' = "matched"
    /\ pc' = "take"
    /\ UNCHANGED <<cycle, now, ArgVars, shiftsFile, storage, swap_shifts,
                   shifts, saved_shifts, new_shifts, requests, responses,
                   attempts, notifications, history, uncaught, OtherVars>>

\* lines 93-100
TakeShifts ==
    /\ pc = "take"
    /\ IF auto_take
       THEN \E order \in Orders(valid_shifts),
               respOf \in [valid_shifts -> ClaimResponses] :
              LET t == TakeAll(order, respOf) IN
                /\ attempts' = attempts \o t.attempts
                /\ requests' = requests \o SentBy(t.attempts)
                /\ responses' = responses \o AnsweredBy(t.attempts)
                /\ IF t.raised
                   THEN pc' = "except" /\ UNCHANGED progress
                   ELSE pc' = "notify" /\ progress' = "taken"
       ELSE /\ pc' = "notify"
            /\ progress' = "taken"
            /\ UNCHANGED <<attempts, requests, responses>>
    /\ UNCHANGED <<cycle, now, ArgVars, shiftsFile, storage, swap_shifts,
                   shifts, saved_shifts, new_shifts, valid_shifts,
                   notifications, history, uncaught, OtherVars>>

\* `if len(valid_shifts) > 0:` (line 103).
\* (NotifiesAlways is the notification without the test.)
NotifiesAlways(valid) == TRUE
Notifies(valid) == Cardinality(valid) > 0

\* lines 102-108
NotifyShifts ==
    /\ pc = "notify"
    /\ IF Notifies(valid_shifts)
       THEN \E out \in NotifyOutcomes :
              LET notes == Append(notifications,
                                  [kind |-> "shifts", outcome |-> out])
              IN  /\ notifications' = notes
                  /\ IF out = "raised"
                     THEN /\ pc' = "except"
                          /\ UNCHANGED <<progress, history>>
                     ELSE /\ pc' = "sleep"
                          /\ progress' = "notified"
                          /\ history' = Append(history, Summary("notified", notes))
       ELSE /\ pc' = "sleep"
            /\ progress' = "notified"
            /\ history' = Append(history, Summary("notified", notifications))
            /\ UNCHANGED notifications
    /\ UNCHANGED <<cycle, now, ArgVars, shiftsFile, storage, swap_shifts,
                   shifts, saved_shifts, new_shifts, valid_shifts, requests,
                   responses, attempts, uncaught, OtherVars>>

\* The timeslots the store may hold
WindowA == RecurringTimeslot({0}, Clock(9, 0, 0), Clock(17, 0, 0), 60)
WindowTue == RecurringTimeslot({1}, Clock(9, 0, 0), Clock(17, 0, 0), 0)
WindowWeek == RecurringTimeslot({0, 1}, Clock(9, 0, 0), Clock(17, 0, 0), 30)
StoredTimeslots == {WindowA, WindowTue, WindowWeek, get_eternal_timeslot}

\* The sets of shifts get_shifts() may have returned, of which line 78 leaves
\* in new_shifts those not seen before: one shift per id
NewShiftSets ==
    {S \in SUBSET {ShiftMon, ShiftMonTaken, ShiftTue, ShiftShort} :
        \A a, b \in S : ShiftEq(a, b) => a = b}

\* data/shifts.json in SpecMatch: absent, or the shift a former run saw
SeenFiles == {AbsentFile, JsonFile(<<ShiftSerialize(ShiftMonTaken)>>)}

\* The state at line 84, for every value of what lines 84-108 read: the new
\* shifts of the cycle (those of the fetched shifts that line 78 finds not
\* in the stored ones), the stored timeslots, --auto-take.  In main() as it
\* stands line 82 raises before line 84 is reached (see DiffAndSave), so
\* SpecMatch describes these lines by themselves.
MatchEntry(c, seen) ==
    /\ pc = "match"
    /\ cycle = c
    /\ now = c
    /\ frequency \in Frequencies
    /\ auto_take \in BOOLEAN
    /\ shiftsFile \in seen
    /\ \E slots \in SeqsUpTo(StoredTimeslots, MaxSlots) :
         timeslotsFile = JsonFile(SerializeAllTimeslots(slots))
    /\ \E exp \in TokenExpirations :
         tokenFile = IF exp.some THEN TokenJson(1, exp.v, 1) ELSE AbsentFile
    /\ storage = StorageInit(timeslotsFile, shiftsFile, tokenFile).value
    /\ swap_shifts = {}
    /\ shifts \in NewShiftSets
    /\ saved_shifts = get_shifts(storage)
    /\ new_shifts = DiffNew(shifts, saved_shifts)
    /\ valid_shifts = {}
    /\ requests = <<>>
    /\ responses = <<>>
    /\ uncaught = None
    /\ objIn = <<>>
    /\ result = <<>>
    /\ EditorAtRest
    /\ attempts = <<>>
    /\ notifications = <<>>
    /\ progress = "saved"
    /\ history = <<>>
    /\ tsIn = get_eternal_timeslot
    /\ startIn = 0
    /\ endIn = 0
    /\ verdict = "none"

InitMatch == MatchEntry(1, SeenFiles)

NextMatch == Match \/ TakeShifts \/ NotifyShifts \/ HandleError \/ Sleep

SpecMatch == InitMatch /\ [][NextMatch]_vars

----------------------------------------------------------------------------
(* RecurringTimeslot.is_valid_shift as a function of its arguments *)

\* The times of day the timestamps take
Clocks ==
    {Clock(8, 0, 0), Clock(9, 0, 0), Clock(10, 0, 0), Clock(10, 30, 0),
     Clock(12, 0, 0), Clock(16, 30, 0), Clock(16, 45, 0), Clock(17, 0, 0),
     Clock(23, 59, 30)}
Stamps == {d * SecondsPerDay + c : d \in 0..MaxDay, c \in Clocks}

\* The timeslots is_valid_shift is applied to
WindowNoMin == RecurringTimeslot({0, 1}, Clock(9, 0, 0), Clock(17, 0, 0), 0)
TimeslotInputs == {WindowA, WindowTue, WindowNoMin, get_eternal_timeslot}

ApplyIsValidShift ==
    /\ pc = "call"
    /\ verdict' = IF is_valid_shift(tsIn, startIn, endIn) THEN "True" ELSE "False"
    /\ pc' = "returned"
    /\ UNCHANGED <<cycle, now, ArgVars, shiftsFile, storage, swap_shifts,
                   shifts, saved_shifts, new_shifts, valid_shifts, requests,
                   responses, attempts, notifications, progress, history,
                   tsIn, startIn, endIn, uncaught, StartupVars, CallVars,
                   EditorVars, ConsoleVars>>

InitTimeslot ==
    /\ pc = "call"
    /\ tsIn \in TimeslotInputs
    /\ startIn \in Stamps
    /\ endIn \in {e \in Stamps : startIn < e}
    /\ verdict = "none"
    /\ cycle = 1
    /\ now = 1
    /\ frequency = None
    /\ auto_take = FALSE
    /\ shiftsFile = [kind |-> "absent", data |-> <<>>]
    /\ storage = Cache(<<>>, <<>>, None, None, None)
    /\ swap_shifts = {}
    /\ shifts = {}
    /\ saved_shifts = <<>>
    /\ new_shifts = {}
    /\ valid_shifts = {}
    /\ requests = <<>>
    /\ responses = <<>>
    /\ uncaught = None
    /\ timeslotsFile = [kind |-> "absent", data |-> <<>>]
    /\ tokenFile = [kind |-> "absent", data |-> <<>>]
    /\ objIn = <<>>
    /\ result = <<>>
    /\ EditorAtRest
    /\ attempts = <<>>
    /\ notifications = <<>>
    /\ progress = "none"
    /\ history = <<>>

NextTimeslot == ApplyIsValidShift

SpecTimeslot == InitTimeslot /\ [][NextTimeslot]_vars

----------------------------------------------------------------------------
(* The loop body from both places: the loop entry, and line 84 *)

\* The loop entry, and line 84 in the last cycle explored, which is the
\* first one when the process makes one cycle only
InitCycle ==
    \/ Init
    \/ \E c \in {1, MaxCycles} :
          /\ MatchEntry(c, {AbsentFile})
          /\ c = IF frequency.some /\ frequency.v > 0 THEN MaxCycles ELSE 1

NextCycle ==
    \/ GetSwapShifts
    \/ GetUnassignedShifts
    \/ DiffAndSave
    \/ Match
    \/ TakeShifts
    \/ NotifyShifts
    \/ HandleError
    \/ Sleep

SpecCycle == InitCycle /\ [][NextCycle]_vars

\* Line 84 in the cycle before the last one explored, of a process that was
\* given a frequency: the rest of that cycle, and the cycle after it
InitRelist ==
    /\ MatchEntry(MaxCycles - 1, {AbsentFile})
    /\ frequency = Some(1)

NextRelist ==
    \/ GetSwapShifts
    \/ GetUnassignedShifts
    \/ DiffAndSave
    \/ Match
    \/ TakeShifts
    \/ NotifyShifts
    \/ HandleError
    \/ Sleep

SpecRelist == InitRelist /\ [][NextRelist]_vars

----------------------------------------------------------------------------
(* The variables at rest *)

\* The variables of main(), and their values while main() does not run
LoopVars ==
    <<cycle, now, frequency, auto_take, shiftsFile, storage, swap_shifts,
      shifts, saved_shifts, new_shifts, valid_shifts, requests, responses,
      attempts, notifications, progress, history, uncaught>>
CycleAtRest ==
    /\ cycle = 1
    /\ now = 1
    /\ swap_shifts = {}
    /\ shifts = {}
    /\ saved_shifts = <<>>
    /\ new_shifts = {}
    /\ valid_shifts = {}
    /\ requests = <<>>
    /\ responses = <<>>
    /\ attempts = <<>>
    /\ notifications = <<>>
    /\ progress = "none"
    /\ history = <<>>
    /\ uncaught = None
LoopAtRest ==
    /\ frequency = None
    /\ auto_take = FALSE
    /\ shiftsFile = AbsentFile
    /\ storage = Cache(<<>>, <<>>, None, None, None)
    /\ CycleAtRest
TimeslotAtRest ==
    /\ tsIn = get_eternal_timeslot
    /\ startIn = 0
    /\ endIn = 0
    /\ verdict = "none"

----------------------------------------------------------------------------
(* run.py lines 47-60: the start-up of main() after HungryAPI(...) *)

\* The names a Storage object has: the attributes __init__ assigns, the
\* properties and the methods
StorageAttrs ==
    StorageProperties
    \cup {"directory", "_recurring_timeslots", "_shifts", "_token",
          "_token_expiration", "_city_id", "add_recurring_timeslot",
          "delete_recurring_timeslot", "add_shift", "_load_to_cache",
          "_save_cache_to_files", "get_recurring_timeslots", "get_shifts",
          "get_token_and_cityid", "save_token_and_cityid",
          "save_recurring_timeslots", "save_shifts",
          "_load_recurring_timeslots", "_load_shifts",
          "_load_token_and_cityid"}

\* A record of recurring_timeslots.json without the key "days", and one
\* whose start is no time of day ("25:00")
TimeslotRecordNoDays ==
    [start |-> StrftimeHM(Clock(9, 0, 0)), end |-> StrftimeHM(Clock(17, 0, 0)),
     min_minutes |-> 0]
TimeslotRecordBadClock ==
    [start |-> [h |-> 25, m |-> 0], end |-> StrftimeHM(Clock(17, 0, 0)),
     days |-> {0}, min_minutes |-> 0]
\* A record of shifts.json without the key "status", and one whose end is
\* no date and time of day
ShiftRecordNoStatus ==
    [id |-> 1, start |-> IsoFormat(At(0, 10, 0, 0)),
     end |-> IsoFormat(At(0, 12, 0, 0)), time_zone |-> "Europe/Copenhagen",
     starting_point_id |-> 1, starting_point_name |-> "Centrum"]
ShiftRecordBadEnd ==
    [ShiftSerialize(ShiftMon) EXCEPT !.end = [date |-> 0, time |-> SecondsPerDay]]

\* data/recurring_timeslots.json, data/shifts.json and data/token.json when
\* the process starts
TimeslotsFilesAtStart ==
    {AbsentFile, CorruptFile, JsonFile(<<>>),
     JsonFile(SerializeAllTimeslots(<<WindowA>>)),
     JsonFile(SerializeAllTimeslots(<<WindowA, WindowTue>>)),
     JsonFile(<<TimeslotRecordNoDays>>),
     JsonFile(<<RecurringTimeslotSerialize(WindowA), TimeslotRecordBadClock>>)}
ShiftsFilesAtStart ==
    ShiftsFiles
    \cup {JsonFile(<<>>), JsonFile(<<ShiftRecordNoStatus>>),
          JsonFile(<<ShiftSerialize(ShiftTue), ShiftRecordBadEnd>>)}
TokenFilesAtStart ==
    {AbsentFile, CorruptFile, TokenJson(1, 1, 1), TokenJson(1, MaxCycles, 1),
     JsonFile([token |-> 1])}

\* line 47: Storage() makes the object and loads the three files
CreateStorage ==
    /\ pc = "storage"
    /\ LET made == StorageInit(timeslotsFile, shiftsFile, tokenFile) IN
         IF made.raised
         THEN /\ pc' = "crashed"
              /\ uncaught' = Some(47)
              /\ UNCHANGED storage
         ELSE /\ pc' = "confirm"
              /\ storage' = made.value
              /\ UNCHANGED uncaught
    /\ UNCHANGED <<cycle, now, ArgVars, shiftsFile, swap_shifts, shifts,
                   saved_shifts, new_shifts, valid_shifts, requests,
                   responses, attempts, notifications, progress, history,
                   OtherVars>>

\* line 51: the question of the start-up
ConfirmPrompt ==
    "No recurring timeslots are set and auto-take is enabled. Do you want to continue? [y/n]"
\* line 52: input().lower() for the answers a user may type
Answers == {"y", "Y", "n", "yes", ""}
Lower(answer) == IF answer = "Y" THEN "y" ELSE answer

\* lines 50-53: with --auto-take the test reads storage.recurringTimeslots;
\* with no timeslots the user is asked, and any answer but "y" ends the
\* process with exit(0)
ConfirmAutoTake ==
    /\ pc = "confirm"
    /\ IF ~ auto_take
       THEN pc' = "timeslots" /\ UNCHANGED <<uncaught, printed>>
       ELSE IF "recurringTimeslots" \notin StorageAttrs
       THEN pc' = "crashed" /\ uncaught' = Some(50) /\ UNCHANGED printed
       ELSE IF Len(storage._recurring_timeslots) = 0
       THEN \E answer \in Answers :
              /\ printed' = <<ConfirmPrompt>>
              /\ pc' = IF Lower(answer) # "y" THEN "exited" ELSE "timeslots"
              /\ UNCHANGED uncaught
       ELSE pc' = "timeslots" /\ UNCHANGED <<uncaught, printed>>
    /\ UNCHANGED <<cycle, now, ArgVars, shiftsFile, storage, swap_shifts,
                   shifts, saved_shifts, new_shifts, valid_shifts, requests,
                   responses, attempts, notifications, progress, history,
                   TimeslotVars, StartupVars, CallVars, EditorVars,
                   user_input, timeslot_number>>

\* lines 55-60: with no timeslots in the store,
\* storage.recurring_timeslots = [get_eternal_timeslot()]
DefaultTimeslot ==
    /\ pc = "timeslots"
    /\ IF Len(get_recurring_timeslots(storage)) = 0
       THEN LET w == StorageSetAttr(storage, "recurring_timeslots",
                                    <<get_eternal_timeslot>>)
            IN  IF w.raised
                THEN /\ pc' = "crashed"
                     /\ uncaught' = Some(60)
                     /\ UNCHANGED storage
                ELSE /\ pc' = "loop"
                     /\ storage' = w.storage
                     /\ UNCHANGED uncaught
       ELSE /\ pc' = "loop"
            /\ UNCHANGED <<storage, uncaught>>
    /\ UNCHANGED <<cycle, now, ArgVars, shiftsFile, swap_shifts, shifts,
                   saved_shifts, new_shifts, valid_shifts, requests,
                   responses, attempts, notifications, progress, history,
                   OtherVars>>

\* The state at line 47: the arguments as given, the three files as a
\* former run, or anybody, left them, no Storage object yet.  Line 44,
\* HungryAPI(...), is not part of this specification: it calls
\* authenticate(), which raises with the code as it stands (see
\* authenticate), so the specification describes lines 47-60 for a
\* HungryAPI object that exists.
InitStartup ==
    /\ pc = "storage"
    /\ frequency \in Frequencies
    /\ auto_take \in BOOLEAN
    /\ timeslotsFile \in TimeslotsFilesAtStart
    /\ shiftsFile \in ShiftsFilesAtStart
    /\ tokenFile \in TokenFilesAtStart
    /\ storage = Cache(<<>>, <<>>, None, None, None)
    /\ CycleAtRest
    /\ TimeslotAtRest
    /\ objIn = <<>>
    /\ result = <<>>
    /\ EditorAtRest

NextStartup == CreateStorage \/ ConfirmAutoTake \/ DefaultTimeslot

SpecStartup == InitStartup /\ [][NextStartup]_vars

----------------------------------------------------------------------------
(* Shift.__eq__ and Shift.__hash__ as functions of two shifts *)

\* Shifts that differ in every field
ShiftPool ==
    {Shift(id, At(d, 10, 0, 0), At(d, 12, 0, 0), status, tz, sp,
           IF sp = 1 THEN "Centrum" ELSE "Nord") :
        id \in 1..MaxId, d \in 0..MaxDay, status \in {"PENDING", "ASSIGNED"},
        tz \in {"Europe/Copenhagen", "UTC"}, sp \in {1, 2}}

\* a == b, hash(a) and hash(b), the set {a, b} and b in [a]
CompareShifts ==
    /\ pc = "call"
    /\ LET a == objIn[1]
           b == objIn[2]
       IN  result' = [eq |-> ShiftEq(a, b),
                      hash |-> <<ShiftHash(a), ShiftHash(b)>>,
                      set |-> SetAdd(SetAdd({}, a), b),
                      member |-> InList(b, <<a>>)]
    /\ pc' = "compared"
    /\ UNCHANGED <<LoopVars, TimeslotVars, StartupVars, EditorVars,
                   ConsoleVars, objIn>>

InitShiftEq ==
    /\ pc = "call"
    /\ objIn \in ShiftPool \X ShiftPool
    /\ result = <<>>
    /\ EditorAtRest
    /\ timeslotsFile = AbsentFile
    /\ tokenFile = AbsentFile
    /\ LoopAtRest
    /\ TimeslotAtRest

NextShiftEq == CompareShifts

SpecShiftEq == InitShiftEq /\ [][NextShiftEq]_vars

----------------------------------------------------------------------------
(* serialize followed by deserialize *)

\* Timeslots that differ in every field; a datetime.time has seconds
TimeslotPool ==
    {RecurringTimeslot(days, start, end, min_minutes) :
        days \in {{0}, {0, 1}, {0, 1, 2, 3, 4, 5, 6}},
        start \in {Clock(0, 0, 0), Clock(9, 0, 0), Clock(9, 0, 30)},
        end \in {Clock(17, 0, 0), Clock(17, 30, 15), Clock(23, 59, 0)},
        min_minutes \in {0, 60}}

\* Shift.deserialize(shift.serialize())
RoundTripShift ==
    /\ pc = "call"
    /\ objIn.kind = "Shift"
    /\ result' = ShiftDeserialize(ShiftSerialize(objIn.v))
    /\ pc' = "restored"
    /\ UNCHANGED <<LoopVars, TimeslotVars, StartupVars, EditorVars,
                   ConsoleVars, objIn>>

\* RecurringTimeslot.deserialize(timeslot.serialize())
RoundTripTimeslot ==
    /\ pc = "call"
    /\ objIn.kind = "RecurringTimeslot"
    /\ result' = RecurringTimeslotDeserialize(RecurringTimeslotSerialize(objIn.v))
    /\ pc' = "restored"
    /\ UNCHANGED <<LoopVars, TimeslotVars, StartupVars, EditorVars,
                   ConsoleVars, objIn>>

InitSerialize ==
    /\ pc = "call"
    /\ objIn \in {[kind |-> "Shift", v |-> x] : x \in ShiftPool}
                \cup {[kind |-> "RecurringTimeslot", v |-> x] : x \in TimeslotPool}
    /\ result = <<>>
    /\ EditorAtRest
    /\ timeslotsFile = AbsentFile
    /\ tokenFile = AbsentFile
    /\ LoopAtRest
    /\ TimeslotAtRest

NextSerialize == RoundTripShift \/ RoundTripTimeslot

SpecSerialize == InitSerialize /\ [][NextSerialize]_vars

----------------------------------------------------------------------------
(* The operations of Storage that write: cache and files *)

\* A timeslot whose start has seconds
WindowSeconds == RecurringTimeslot({0}, Clock(9, 0, 30), Clock(17, 0, 0), 0)

\* What the callers of the store hand it
StoreTimeslots == {WindowA, WindowTue, WindowSeconds}
StoreShifts == {ShiftMon, ShiftTue}
StoreTokens == {<<1, 1, 1>>, <<2, MaxCycles, 2>>}

\* What the store operations leave alone
StoreOthers ==
    <<pc, cycle, now, ArgVars, swap_shifts, shifts, saved_shifts, new_shifts,
      valid_shifts, requests, responses, attempts, notifications, history,
      uncaught, TimeslotVars, CallVars, EditorVars, ConsoleVars>>

\* storage.add_recurring_timeslot(timeslot)
StoreAddTimeslot ==
    /\ Len(storage._recurring_timeslots) < MaxSlots
    /\ \E timeslot \in StoreTimeslots :
         LET done == add_recurring_timeslot(storage, timeslot) IN
           /\ storage' = done.storage
           /\ timeslotsFile' = done.file
    /\ progress' = "add_recurring_timeslot"
    /\ UNCHANGED <<shiftsFile, tokenFile, StoreOthers>>

\* storage.delete_recurring_timeslot(timeslot) for a timeslot of the cache,
\* or (place 0) for one that is not in it: ValueError, nothing returned
StoreDeleteTimeslot ==
    /\ \E i \in 0..Len(storage._recurring_timeslots) :
         LET done == delete_recurring_timeslot(storage, timeslotsFile, i) IN
           /\ storage' = done.storage
           /\ timeslotsFile' = done.file
           /\ progress' = IF done.raised THEN progress
                          ELSE "delete_recurring_timeslot"
    /\ UNCHANGED <<shiftsFile, tokenFile, StoreOthers>>

\* storage.save_recurring_timeslots(timeslots)
StoreSaveTimeslots ==
    /\ \E timeslots \in SeqsUpTo(StoreTimeslots, MaxSlots) :
         LET done == save_recurring_timeslots(storage, timeslots) IN
           /\ storage' = done.storage
           /\ timeslotsFile' = done.file
    /\ progress' = "save_recurring_timeslots"
    /\ UNCHANGED <<shiftsFile, tokenFile, StoreOthers>>

\* storage.add_shift(shift)
StoreAddShift ==
    /\ Len(storage._shifts) < MaxSlots
    /\ \E shift \in StoreShifts :
         LET done == add_shift(storage, shift) IN
           /\ storage' = done.storage
           /\ shiftsFile' = done.file
    /\ progress' = "add_shift"
    /\ UNCHANGED <<timeslotsFile, tokenFile, StoreOthers>>

\* storage.save_shifts(shifts)
StoreSaveShifts ==
    /\ \E list \in SeqsUpTo(StoreShifts, MaxSlots) :
         LET done == save_shifts(storage, list) IN
           /\ storage' = done.storage
           /\ shiftsFile' = done.file
    /\ progress' = "save_shifts"
    /\ UNCHANGED <<timeslotsFile, tokenFile, StoreOthers>>

\* storage.save_token_and_cityid(token, expires, city_id)
StoreSaveToken ==
    /\ \E t \in StoreTokens :
         LET done == save_token_and_cityid(storage, t[1], t[2], t[3]) IN
           /\ storage' = done.storage
           /\ tokenFile' = done.file
    /\ progress' = "save_token_and_cityid"
    /\ UNCHANGED <<timeslotsFile, shiftsFile, StoreOthers>>

\* Storage() has loaded the three files, each absent, empty or as a former
\* save left it
InitStore ==
    /\ pc = "call"
    /\ timeslotsFile \in {AbsentFile, JsonFile(<<>>),
                          JsonFile(SerializeAllTimeslots(<<WindowA>>))}
    /\ shiftsFile \in {AbsentFile, JsonFile(SerializeAllShifts(<<ShiftMon>>))}
    /\ tokenFile \in {AbsentFile, TokenJson(1, 1, 1)}
    /\ storage = StorageInit(timeslotsFile, shiftsFile, tokenFile).value
    /\ frequency = None
    /\ auto_take = FALSE
    /\ CycleAtRest
    /\ TimeslotAtRest
    /\ objIn = <<>>
    /\ result = <<>>
    /\ EditorAtRest

NextStore ==
    \/ StoreAddTimeslot
    \/ StoreDeleteTimeslot
    \/ StoreSaveTimeslots
    \/ StoreAddShift
    \/ StoreSaveShifts
    \/ StoreSaveToken

SpecStore == InitStore /\ [][NextStore]_vars

----------------------------------------------------------------------------
(* HungryAPI.get_shifts as a function of the two listings *)

\* HungryAPI.get_shifts() (lines 119-124) for what the two endpoints
\* answered: both listings normalised, then swap_shifts.union(unassigned)
HungryAPI_get_shifts(swaps, unassigned) ==
    LET s == resp_to_shifts(swaps)
        u == resp_to_shifts(unassigned)
    IN  IF s.raised \/ u.raised THEN Raise({})
        ELSE Return(SetUnion(s.set, u.set))

\* The bodies of a listing response
Bodies == SeqsUpTo(RawRecords, MaxResp)

ApplyGetShifts ==
    /\ pc = "call"
    /\ result' = HungryAPI_get_shifts(objIn[1], objIn[2])
    /\ pc' = "returned"
    /\ UNCHANGED <<LoopVars, TimeslotVars, StartupVars, EditorVars,
                   ConsoleVars, objIn>>

InitGetShifts ==
    /\ pc = "call"
    /\ objIn \in Bodies \X Bodies
    /\ result = <<>>
    /\ EditorAtRest
    /\ timeslotsFile = AbsentFile
    /\ tokenFile = AbsentFile
    /\ LoopAtRest
    /\ TimeslotAtRest

NextGetShifts == ApplyGetShifts

SpecGetShifts == InitGetShifts /\ [][NextGetShifts]_vars

----------------------------------------------------------------------------
(* timeslot_creator.py: create_timeslot() *)

\* What the user may type for the days: the names between the commas, each a
\* name of a day (its number) or a text that is none (None)
DayTexts ==
    {<<Some(0)>>, <<Some(0), Some(2), Some(4)>>, <<Some(5), Some(6)>>,
     <<Some(1), None>>, <<None>>}
\* RecurringTimeslot._day_name_to_int(day) raises KeyError for a text that is
\* no name of a day
DayNameRaises(text) == \E i \in 1..Len(text) : ~ text[i].some
DayNamesToInts(text) == {text[i].v : i \in 1..Len(text)}

\* What the user may type for a clock: an hour and a minute, 25:00 included
ClockTexts ==
    {[h |-> 0, m |-> 0], [h |-> 9, m |-> 0], [h |-> 10, m |-> 30],
     [h |-> 17, m |-> 0], [h |-> 23, m |-> 59], [h |-> 25, m |-> 0]}

\* What the user may type for the minimum: a number, or a text that is none
MinimumTexts ==
    {None, Some(0 - 1), Some(0), Some(30), Some(390), Some(480), Some(481),
     Some(960), Some(961), Some(1439), Some(1440)}

\* lines 71-83: the days; an invalid name asks again, Ctrl-C returns None
EnterDays ==
    /\ pc = "days"
    /\ \/ \E text \in DayTexts :
             IF DayNameRaises(text)
             THEN UNCHANGED <<pc, days_of_the_week, result>>
             ELSE /\ days_of_the_week' = DayNamesToInts(text)
                  /\ pc' = "clocks"
                  /\ UNCHANGED result
       \/ /\ pc' = "returned"
          /\ result' = None
          /\ UNCHANGED days_of_the_week
    /\ UNCHANGED <<LoopVars, TimeslotVars, StartupVars, objIn, start_time,
                   end_time, ConsoleVars>>

\* lines 85-98: the two clocks; a text strptime rejects asks for both again,
\* Ctrl-C returns None.  What a rejected entry leaves in start_time is
\* overwritten by the next entry before it is read.
EnterClocks ==
    /\ pc = "clocks"
    /\ \/ \E s \in ClockTexts, e \in ClockTexts :
             IF StrptimeRaises(s) \/ StrptimeRaises(e)
             THEN UNCHANGED <<pc, start_time, end_time, result>>
             ELSE /\ start_time' = StrptimeHM(s)
                  /\ end_time' = StrptimeHM(e)
                  /\ pc' = "minimum"
                  /\ UNCHANGED result
       \/ /\ pc' = "returned"
          /\ result' = None
          /\ UNCHANGED <<start_time, end_time>>
    /\ UNCHANGED <<LoopVars, TimeslotVars, StartupVars, objIn,
                   days_of_the_week, ConsoleVars>>

\* line 112: (end_time - start_time).seconds < min_shift_length * 60
SpanTooShort(start, end, min_shift_length) ==
    TimedeltaSeconds(end, start) < min_shift_length * SecondsPerMinute

\* lines 100-118: the minimum; a text that is no number, a negative number
\* and a number line 112 rejects ask again; Ctrl-C is not caught here
EnterMinimum ==
    /\ pc = "minimum"
    /\ \/ \E text \in MinimumTexts :
             IF ~ text.some THEN UNCHANGED <<pc, result>>
             ELSE IF text.v < 0 THEN UNCHANGED <<pc, result>>
             ELSE IF SpanTooShort(start_time, end_time, text.v)
             THEN UNCHANGED <<pc, result>>
             ELSE /\ result' = Some(RecurringTimeslot(days_of_the_week,
                                                      start_time, end_time,
                                                      text.v))
                  /\ pc' = "returned"
       \/ /\ pc' = "interrupted"
          /\ UNCHANGED result
    /\ UNCHANGED <<LoopVars, TimeslotVars, StartupVars, objIn, EditorVars,
                   ConsoleVars>>

\* create_timeslot() is called
InitCreate ==
    /\ pc = "days"
    /\ EditorAtRest
    /\ objIn = <<>>
    /\ result = <<>>
    /\ timeslotsFile = AbsentFile
    /\ tokenFile = AbsentFile
    /\ LoopAtRest
    /\ TimeslotAtRest

NextCreate == EnterDays \/ EnterClocks \/ EnterMinimum

SpecCreate == InitCreate /\ [][NextCreate]_vars

----------------------------------------------------------------------------
(* timeslot_creator.py: main(), the menu of the timeslot editor *)

\* The messages of main().  Every pass of the loop first lists
\* storage.recurring_timeslots, the timeslot at place i of the list under the
\* number i (lines 13-15, enumerate with i + 1), and the three options.
MsgNoNumber == "Invalid input. Please enter a number."
MsgNoOption == "Invalid input. Please choose an option from the list."
MsgAdded == "Timeslot added successfully"
MsgDeleted == "Timeslot deleted successfully"
MsgBadNumber == "Invalid timeslot number"
MsgExiting == "Exiting..."

\* list[index] of Python for a list of n elements: the place (1-based) the
\* index names, 0 when it raises IndexError.  An index from -n to -1 counts
\* from the end of the list.
ListIndex(n, index) ==
    IF index >= 0 /\ index < n THEN index + 1
    ELSE IF index < 0 /\ index >= 0 - n THEN n + index + 1
    ELSE 0

\* line 64, def create_timeslot(): the parameters it takes; line 31 calls
\* it with one argument.  A call with a number of arguments the function
\* does not take raises TypeError before the body runs.
CreateTimeslotParameters == 0
CallRaisesTypeError(given) == given # CreateTimeslotParameters

\* What create_timeslot() may return once its body runs: a timeslot, or None
\* after Ctrl-C
CreateReturns == {Some(WindowA), Some(WindowTue), None}

\* The timeslots a store may list when the editor starts, with their clocks
\* as a file keeps them
WindowEve == RecurringTimeslot({0, 1}, Clock(17, 0, 0), Clock(23, 59, 0), 30)
EditorTimeslots == {WindowA, WindowTue, WindowEve}

\* What the user may type for a number: a text that is none (None), or a
\* number
OptionTexts == {None} \cup {Some(n) : n \in 0..4}
NumberTexts ==
    {None} \cup {Some(k) : k \in (0 - (MaxSlots + 2))..(MaxSlots + 2)}

\* What main() leaves alone
EditorOthers ==
    <<cycle, now, ArgVars, shiftsFile, tokenFile, swap_shifts, shifts,
      saved_shifts, new_shifts, valid_shifts, requests, responses, attempts,
      notifications, progress, history, TimeslotVars, CallVars, EditorVars>>

\* lines 22-26 and 57-59: a text that is no number, or a number that is no
\* option; the loop goes on
EditorOtherOption ==
    /\ pc = "menu"
    /\ \E text \in OptionTexts :
         /\ text.some => text.v \notin {1, 2, 3}
         /\ user_input' = text
         /\ printed' = IF text.some THEN <<MsgNoOption>> ELSE <<MsgNoNumber>>
    /\ UNCHANGED <<pc, storage, timeslotsFile, uncaught, timeslot_number,
                   EditorOthers>>

\* lines 29-35, option 1: storage.add_recurring_timeslot(create_timeslot(
\* storage)).  The argument is evaluated first; an exception that is no
\* ValueError leaves main() at line 31.  add_recurring_timeslot(None)
\* appends None to the cache, opens the file for writing, which empties it,
\* and raises AttributeError at None.serialize().
EditorAdd ==
    /\ pc = "menu"
    /\ user_input' = Some(1)
    /\ IF CallRaisesTypeError(1)
       THEN /\ pc' = "crashed"
            /\ uncaught' = Some(31)
            /\ UNCHANGED <<storage, timeslotsFile, printed>>
       ELSE \E made \in CreateReturns :
              IF made.some
              THEN LET done == add_recurring_timeslot(storage, made.v) IN
                     /\ storage' = done.storage
                     /\ timeslotsFile' = done.file
                     /\ printed' = <<MsgAdded>>
                     /\ UNCHANGED <<pc, uncaught>>
              ELSE /\ storage' =
                        [storage EXCEPT !._recurring_timeslots =
                                            Append(@, made)]
                   /\ timeslotsFile' = CorruptFile
                   /\ pc' = "crashed"
                   /\ uncaught' = Some(31)
                   /\ UNCHANGED printed
    /\ UNCHANGED <<timeslot_number, EditorOthers>>

\* lines 37-53, option 2: the number is read with int(); the timeslot is
\* storage.recurring_timeslots[timeslot_number - 1]; IndexError and
\* ValueError print a message and the loop goes on
EditorDelete ==
    /\ pc = "menu"
    /\ user_input' = Some(2)
    /\ \E text \in NumberTexts :
         /\ timeslot_number' = text
         /\ IF ~ text.some
            THEN /\ printed' = <<MsgNoNumber>>
                 /\ UNCHANGED <<storage, timeslotsFile>>
            ELSE LET place == ListIndex(Len(get_recurring_timeslots(storage)),
                                        text.v - 1)
                 IN  IF place = 0
                     THEN /\ printed' = <<MsgBadNumber>>
                          /\ UNCHANGED <<storage, timeslotsFile>>
                     ELSE LET done == delete_recurring_timeslot(
                                          storage, timeslotsFile, place)
                          IN  /\ storage' = done.storage
                              /\ timeslotsFile' = done.file
                              /\ printed' = IF done.raised THEN <<MsgNoNumber>>
                                            ELSE <<MsgDeleted>>
    /\ UNCHANGED <<pc, uncaught, EditorOthers>>

\* lines 55-56 and 60-61, option 3: the loop ends and the process exits
EditorExit ==
    /\ pc = "menu"
    /\ user_input' = Some(3)
    /\ printed' = <<MsgExiting>>
    /\ pc' = "exited"
    /\ UNCHANGED <<storage, timeslotsFile, uncaught, timeslot_number,
                   EditorOthers>>

\* line 9: Storage() has loaded the timeslot file, absent or as the editor
\* left it
InitEditor ==
    /\ pc = "menu"
    /\ timeslotsFile \in
         {AbsentFile}
         \cup {JsonFile(SerializeAllTimeslots(list)) :
                 list \in SeqsUpTo(EditorTimeslots, MaxSlots + 1)}
    /\ shiftsFile = AbsentFile
    /\ tokenFile = AbsentFile
    /\ storage = StorageInit(timeslotsFile, shiftsFile, tokenFile).value
    /\ frequency = None
    /\ auto_take = FALSE
    /\ CycleAtRest
    /\ TimeslotAtRest
    /\ objIn = <<>>
    /\ result = <<>>
    /\ EditorAtRest

NextEditor == EditorOtherOption \/ EditorAdd \/ EditorDelete \/ EditorExit

SpecEditor == InitEditor /\ [][NextEditor]_vars

----------------------------------------------------------------------------
(* The claims *)

\* The try block of the current cycle got past line 78, 82, 91
Diffed == progress \in {"diffed", "saved", "matched", "taken", "notified"}
Matched == progress \in {"matched", "taken", "notified"}
\* The cycle is over: main() is at the sleep or has left the loop
CycleOver == pc \in {"sleep", "done"}
\* The shifts the store holds
Stored == {storage._shifts[i] : i \in 1..Len(storage._shifts)}
\* The timeslots the store holds
Slots == storage._recurring_timeslots

\* C1: in every polling cycle the new shifts are the fetched shifts whose id
\* is not the id of a stored previously-seen shift: each new shift is a
\* fetched shift with an id no stored shift has, and each fetched shift with
\* such an id is new.
C1_NewIsFetchedMinusSeenById ==
    Diffed =>
        /\ \A s \in new_shifts :
              s \in shifts /\ s.id \notin IdsOfList(saved_shifts)
        /\ \A s \in shifts :
              s.id \notin IdsOfList(saved_shifts) => s \in new_shifts
        /\ saved_shifts = storage._shifts

\* A cycle that fetched a shift whose id is stored with another status,
\* together with a shift never seen
C1_Witness ==
    /\ Diffed
    /\ \E s \in shifts : s \notin new_shifts /\ s \notin Stored
    /\ new_shifts # {}

\* C2: after every polling cycle whose fetch succeeded the store holds
\* exactly the shifts fetched in that cycle.
C2_StoreHoldsFetched ==
    (CycleOver /\ progress # "none") => Stored = shifts

\* C3: when two consecutive cycles fetch the same set of shifts, the second
\* finds no new shift, claims nothing and sends no shift notification.
C3_SameListingNothingNew ==
    \A i \in 2..Len(history) :
        (/\ history[i - 1].fetched
         /\ history[i].fetched
         /\ history[i - 1].ids = history[i].ids)
        => (/\ history[i].new = {}
            /\ history[i].claims = 0
            /\ history[i].notified = 0)

\* C4: a shift listed in one cycle, not listed in the next and listed again
\* in the one after is new in that third cycle.
C4_ReappearingShiftIsNew ==
    \A i \in 3..Len(history) :
        \A id \in history[i].ids :
            (/\ history[i - 2].fetched /\ id \in history[i - 2].ids
             /\ history[i - 1].fetched /\ id \notin history[i - 1].ids
             /\ history[i].fetched)
            => id \in history[i].new

\* C5: the valid shifts of a cycle are exactly the new shifts that at least
\* one stored timeslot accepts, each held once.
C5_ValidIsNewAcceptedByAny ==
    Matched =>
        /\ valid_shifts =
              {s \in new_shifts :
                  \E i \in 1..Len(Slots) : is_valid_shift(Slots[i], s.start, s.end)}
        /\ \A a, b \in valid_shifts : a.id = b.id => a = b

\* A cycle with two timeslots: the first rejects a shift the second accepts,
\* both accept another shift, and a third shift is accepted by neither
C5_Witness ==
    /\ Matched
    /\ Len(Slots) = 2
    /\ \E s \in valid_shifts :
          /\ ~ is_valid_shift(Slots[1], s.start, s.end)
          /\ is_valid_shift(Slots[2], s.start, s.end)
    /\ \E s \in valid_shifts :
          /\ is_valid_shift(Slots[1], s.start, s.end)
          /\ is_valid_shift(Slots[2], s.start, s.end)
    /\ new_shifts \ valid_shifts # {}

\* C6: with no timeslot to match against no shift is valid, whatever the new
\* shifts are, and nothing is claimed and nothing is notified.
C6_NoTimeslotsNothingValid ==
    (Matched /\ Len(Slots) = 0) =>
        /\ valid_shifts = {}
        /\ attempts = <<>>
        /\ notifications = <<>>

\* A cycle with new shifts, auto-take on and no timeslot, run to its end
C6_Witness ==
    /\ progress = "notified"
    /\ Len(Slots) = 0
    /\ Cardinality(new_shifts) >= 2
    /\ auto_take

\* is_valid_shift has returned
Returned == verdict # "none"
\* The elapsed time of the shift, in seconds
Elapsed == endIn - startIn
\* The day and the clock rules let the shift through
DayAndClockPass ==
    /\ (startIn \div 86400) % 7 \in tsIn.recurring_days
    /\ startIn % 86400 >= tsIn.start
    /\ endIn % 86400 <= tsIn.end

\* C7: is_valid_shift rejects a shift whose start is on a day the timeslot
\* does not list, or whose start is earlier in the day than the timeslot's
\* start, or whose end is later in the day than the timeslot's end; a start
\* at the timeslot's start and an end at the timeslot's end are inside.  For
\* {Monday, 09:00-17:00, 60 minutes}: Monday 10:00-12:00 is accepted, Tuesday
\* 10:00-12:00, Monday 08:00-10:00 and Monday 16:30-16:45 are rejected.
C7_DayAndClockRules ==
    Returned =>
        /\ (startIn \div 86400) % 7 \notin tsIn.recurring_days => verdict = "False"
        /\ startIn % 86400 < tsIn.start => verdict = "False"
        /\ endIn % 86400 > tsIn.end => verdict = "False"
        /\ (/\ DayAndClockPass
            /\ Elapsed < 86400
            /\ Elapsed >= 60 * tsIn.min_minutes) => verdict = "True"
        /\ tsIn = WindowA =>
              /\ (startIn = At(0, 10, 0, 0) /\ endIn = At(0, 12, 0, 0)) => verdict = "True"
              /\ (startIn = At(1, 10, 0, 0) /\ endIn = At(1, 12, 0, 0)) => verdict = "False"
              /\ (startIn = At(0, 8, 0, 0) /\ endIn = At(0, 10, 0, 0)) => verdict = "False"
              /\ (startIn = At(0, 16, 30, 0) /\ endIn = At(0, 16, 45, 0)) => verdict = "False"

\* The Monday window applied to a Monday shift that starts at the window's
\* start and ends at the window's end
C7_Witness ==
    /\ verdict = "True"
    /\ tsIn = WindowA
    /\ startIn = At(0, 9, 0, 0)
    /\ endIn = At(0, 17, 0, 0)

\* C8: for every start < end, shifts of 24 hours and more included,
\* is_valid_shift rejects a shift that passes the day and the clock rules
\* exactly when its elapsed time in minutes is less than min_minutes.
C8_DurationRuleUsesElapsedTime ==
    (Returned /\ DayAndClockPass) =>
        (verdict = "False" <=> Elapsed < 60 * tsIn.min_minutes)

\* The claim loop of the current cycle has been left
ClaimsOver == Matched /\ pc \in {"notify", "except", "sleep", "done"}
\* The shifts take_shift was called for in this cycle
Attempted == {attempts[i].shift : i \in 1..Len(attempts)}

\* C9: with auto-take on, take_shift is called for every valid shift of the
\* cycle, also when the call for another valid shift failed.
C9_EveryValidShiftAttempted ==
    (ClaimsOver /\ auto_take) => Attempted = valid_shifts

\* C10: take_shift sends one request to the swap-claim endpoint for a PENDING
\* shift, one request to the assignment endpoint for an UNASSIGNED shift, and
\* raises without a request for any other status; the claim succeeds when the
\* endpoint accepts it.
C10_TakeShiftDispatch ==
    \A i \in 1..Len(attempts) :
        LET a == attempts[i] IN
        /\ a.shift.status = "PENDING" =>
              (a.sent = <<"take_swap">> /\ (a.resp = "ok" => ~ a.raised))
        /\ a.shift.status = "UNASSIGNED" =>
              (a.sent = <<"take_unassigned">> /\ (a.resp = "ok" => ~ a.raised))
        /\ a.shift.status \notin {"PENDING", "UNASSIGNED"} =>
              (a.sent = <<>> /\ a.raised)

\* The notifications of the current cycle that report shifts
ShiftNotes == {i \in 1..Len(notifications) : notifications[i].kind = "shifts"}
\* The notifications of the current cycle that report an error
ErrorNotes == {i \in 1..Len(notifications) : notifications[i].kind = "error"}

\* C11: in every polling cycle whose valid set is not empty exactly one
\* notification call that reports the valid shifts is made, with auto-take
\* on or off, and also when a claim failed.
C11_OneShiftNotificationPerCycle ==
    (CycleOver /\ Matched /\ valid_shifts # {}) => Cardinality(ShiftNotes) = 1

\* C12: the stored previously-seen set is replaced by the fetched set before
\* any claim is attempted: from the replacement statement (line 82) on, to
\* the end of the cycle and whatever the claims do, the store holds the
\* fetched set.
C12_StoreReplacedBeforeClaims ==
    (Diffed /\ pc # "diff") => Stored = shifts

\* C13: two shifts are equal exactly when their ids are equal, whatever
\* their other fields; equal shifts have equal hashes; a set of shifts holds
\* one shift per id, and membership goes by id.
C13_ShiftEqualityById ==
    pc = "compared" =>
        LET a == objIn[1]
            b == objIn[2]
        IN  /\ result.eq <=> a.id = b.id
            /\ result.eq => result.hash[1] = result.hash[2]
            /\ Cardinality(result.set) = IF a.id = b.id THEN 1 ELSE 2
            /\ \A x, y \in result.set : x.id = y.id => x = y
            /\ result.member <=> a.id = b.id

\* Two shifts with one id that differ in start, end, status, time zone and
\* starting point, compared
C13_Witness ==
    /\ pc = "compared"
    /\ result.eq
    /\ objIn[1].start # objIn[2].start
    /\ objIn[1].end # objIn[2].end
    /\ objIn[1].status # objIn[2].status
    /\ objIn[1].time_zone # objIn[2].time_zone
    /\ objIn[1].starting_point_id # objIn[2].starting_point_id
    /\ objIn[1].starting_point_name # objIn[2].starting_point_name

\* C14: deserialize(serialize(x)) has every field of x, for every Shift and
\* for every RecurringTimeslot, also one whose start or end clock has
\* seconds.
C14_RoundTripReproducesFields ==
    pc = "restored" => result = objIn.v

\* The start-up is over: main() is at the loop, or an exception or exit(0)
\* ended it
StartupOver == pc \in {"loop", "crashed", "exited"}

\* C15: when the store holds no timeslot at start-up the default timeslot
\* is created and persisted before the first cycle: a start-up that gets to
\* the timeslots (line 56) ends at the loop, with a store that holds a
\* timeslot, the default one when none was loaded, and a timeslot file that
\* holds what the store holds.
C15_DefaultTimeslotPersisted ==
    (pc \in {"loop", "crashed"} /\ uncaught \notin {Some(47), Some(50)}) =>
        /\ pc = "loop"
        /\ Len(Slots) > 0
        /\ load_recurring_timeslots(timeslotsFile) = Return(Slots)

\* A file the loaders answer with the empty default: absent, not JSON, or
\* JSON with a record that lacks a field or holds a malformed value
Unreadable(file, RecordRaises(_)) ==
    \/ file.kind \in {"absent", "corrupt"}
    \/ \E i \in 1..Len(file.data) : RecordRaises(file.data[i])
TokenUnreadable(file) ==
    \/ file.kind \in {"absent", "corrupt"}
    \/ ~ (TokenKeys \subseteq DOMAIN file.data)

\* C20: loading the timeslots, the previously-seen shifts or the token never
\* raises: Storage() returns, and for a file that is absent, is not JSON, or
\* is JSON whose records lack a field or hold a malformed value, the store
\* holds the empty default (no timeslots, no shifts, no token, expiry and
\* city id).
C20_LoadingNeverRaises ==
    /\ uncaught # Some(47)
    /\ pc = "confirm" =>
          /\ Unreadable(timeslotsFile, RecurringTimeslotDeserializeRaises)
                => storage._recurring_timeslots = <<>>
          /\ Unreadable(shiftsFile, ShiftDeserializeRaises)
                => storage._shifts = <<>>
          /\ TokenUnreadable(tokenFile) =>
                /\ storage._token = None
                /\ storage._token_expiration = None
                /\ storage._city_id = None

\* The requests of the current cycle that fetch a listing
Fetches == {i \in 1..Len(requests) : requests[i] \in {"swaps", "unassigned"}}

\* C16: every listing fetch comes after a token check: no fetch is sent
\* while the stored token expiry is absent or past, and when the check
\* found it so, authenticate() ran and completed first: an authentication
\* the service accepted is followed by the fetch it was made for.
C16_AuthenticateBeforeFetch ==
    /\ Fetches # {} => ~ TokenExpired(storage, now)
    /\ \A i \in 1..Len(requests) :
          (requests[i] = "auth" /\ responses[i] = "ok") =>
              (i + 1) \in Fetches

\* C17: a claim call is guarded by the token check too: no claim is
\* attempted while the stored token expiry is absent or past unless an
\* authentication request was sent before it.
C17_AuthenticateBeforeClaim ==
    (attempts # <<>> /\ TokenExpired(storage, now)) =>
        \E i \in 1..Len(requests) : requests[i] = "auth"

\* The cycle is over and its try block was left by an exception
CycleFailed == CycleOver /\ progress # "notified"

C19_NoFrequencyOneCycle ==
    /\ [](~ frequency.some =>
            /\ cycle = 1
            /\ pc # "crashed"
            /\ Len(history) <= 1
            /\ (pc = "loop" => history = <<>>)
            /\ (pc = "done" => Len(history) = 1))
    /\ [][(pc = "sleep" /\ ~ frequency.some) => (pc' = "done")]_vars

\* The process ended after one cycle that completed, with a shift notified
C19_Witness ==
    /\ pc = "done"
    /\ ~ frequency.some
    /\ Len(history) = 1
    /\ history[1].progress = "notified"
    /\ history[1].notified = 1

\* The current cycle sent an authentication request and no fetch after it:
\* authenticate() raised
AuthFailed == requests # <<>> /\ requests[Len(requests)] = "auth"

\* C21: when authentication fails in a polling cycle the cycle is aborted
\* (nothing fetched, nothing stored, claimed or notified but the error, which
\* one error notification reports) and the error does not leave main(); the
\* failed attempt leaves the stored token expiry absent or past, also at the
\* start of the next cycle, and a cycle that starts so sends the
\* authentication request first, before any fetch.
C21_FailedAuthenticationRetried ==
    /\ [](AuthFailed =>
            /\ pc \in {"except", "sleep", "done"}
            /\ progress = "none"
            /\ attempts = <<>>
            /\ ShiftNotes = {}
            /\ Fetches = {}
            /\ CycleOver => Cardinality(ErrorNotes) = 1
            /\ TokenExpired(storage, now))
    /\ [][(AuthFailed /\ pc = "except") => (pc' = "sleep" /\ storage' = storage)]_vars
    /\ [][(AuthFailed /\ pc = "sleep" /\ frequency.some /\ frequency.v > 0)
            => (pc' = "loop" /\ cycle' = cycle + 1
                /\ TokenExpired(storage', now'))]_vars
    /\ [][(pc = "loop" /\ TokenExpired(storage, now))
            => (requests' # <<>> /\ requests'[1] = "auth")]_vars

\* A second cycle whose authentication failed, after a first one that started
\* without a token and so failed in the same way
C21_Witness ==
    /\ cycle = 2
    /\ pc = "sleep"
    /\ AuthFailed
    /\ responses = <<"ok">>
    /\ ~ storage._token_expiration.some
    /\ history[1].progress = "none"

\* C22: after an authenticate() the service accepted, the store holds the
\* token and the city id of the response and an expiry of the time of the
\* authentication plus 3500 seconds; the getters return the cache, so these
\* are the values later reads return.
C22_AuthenticateStoresToken ==
    \A i \in 1..Len(requests) :
        (requests[i] = "auth" /\ responses[i] = "ok") =>
            /\ storage._token = Some(AuthJson.token)
            /\ storage._token_expiration = Some(now + 3500)
            /\ storage._city_id = Some(AuthJson.city_id)

\* create_timeslot() returned a timeslot
Created == pc = "returned" /\ result.some

\* C23: create_timeslot() never returns a timeslot whose minimum duration is
\* negative or is more than the minutes from the start clock to the end
\* clock (end minus start), whatever the two clocks are, an end clock before
\* the start clock included.
C23_MinimumWithinClockSpan ==
    Created =>
        /\ result.v.min_minutes >= 0
        /\ 60 * result.v.min_minutes <= result.v.end - result.v.start

\* The ids a listing holds, and the listing's record normalised to a shift
ListedIds(body) == {body[i].id : i \in 1..Len(body)}
Normalised(body) ==
    {Shift(body[i].id, body[i].start, body[i].end, body[i].state,
           body[i].time_zone, body[i].starting_point_id,
           body[i].starting_point_name) : i \in 1..Len(body)}

\* C24: get_shifts() returns the union by id of the normalised swap listing
\* and the normalised unassigned listing: every shift of the result is a
\* normalised record of one of the listings, the result has a shift for each
\* id that occurs in either listing, no shift with another id, and one shift
\* per id.
C24_GetShiftsUnionById ==
    (pc = "returned" /\ ~ result.raised) =>
        /\ result.value \subseteq Normalised(objIn[1]) \cup Normalised(objIn[2])
        /\ IdsOf(result.value) = ListedIds(objIn[1]) \cup ListedIds(objIn[2])
        /\ \A a, b \in result.value : a.id = b.id => a = b

\* Two listings that hold one id with two statuses, and an id only the
\* second holds
C24_Witness ==
    /\ pc = "returned"
    /\ ~ result.raised
    /\ Cardinality(result.value) = 2
    /\ ListedIds(objIn[1]) = {1}
    /\ ListedIds(objIn[2]) = {1, 2}
    /\ \E i \in 1..Len(objIn[2]) :
          objIn[2][i].id = 1 /\ objIn[2][i].state # objIn[1][1].state

\* C25: every claim attempt of the polling loop is for a shift that, in the
\* same cycle, was fetched, was not in the previously-seen set the cycle
\* read from the store, and is accepted by at least one stored timeslot; with
\* auto-take off no claim is attempted.
C25_ClaimsOnlyNewValidFetched ==
    /\ \A i \in 1..Len(attempts) :
          LET s == attempts[i].shift IN
          /\ s \in shifts
          /\ s.id \notin IdsOfList(saved_shifts)
          /\ s.id \notin IdsOfList(storage._shifts)
          /\ \E k \in 1..Len(Slots) : is_valid_shift(Slots[k], s.start, s.end)
    /\ ~ auto_take => attempts = <<>>

\* A claim attempt in a cycle that fetched a shift seen before and found a
\* new shift no timeslot accepts
C25_Witness ==
    /\ auto_take
    /\ attempts # <<>>
    /\ shifts \ new_shifts # {}
    /\ new_shifts \ valid_shifts # {}
    /\ saved_shifts # <<>>

\* A listing fetch of the current cycle failed, or its answer holds a record
\* that lacks a required field
FetchFailed == \E i \in Fetches : responses[i] # "ok"

\* C26: a cycle in which a listing fetch fails or a listing record lacks a
\* required field is aborted as a whole: it goes to the error handler with
\* nothing fetched, the store and data/shifts.json stay as they were when the
\* cycle began, no claim is attempted and no shift notification is sent; and
\* in no cycle is a listing endpoint requested twice.
C26_FailedFetchAbortsCycle ==
    /\ [](FetchFailed =>
            /\ pc \in {"except", "sleep", "done"}
            /\ progress = "none"
            /\ attempts = <<>>
            /\ ShiftNotes = {}
            /\ CycleOver => Cardinality(ErrorNotes) = 1)
    /\ [](\A i, j \in Fetches : requests[i] = requests[j] => i = j)
    /\ [][FetchFailed' => (storage' = storage /\ shiftsFile' = shiftsFile)]_vars
    /\ [][(pc \in {"loop", "unassigned"})
            => (storage'._shifts = storage._shifts /\ shiftsFile' = shiftsFile)]_vars

\* A cycle with a store that holds a shift, whose swap listing was fetched
\* and normalised and whose unassigned listing held a malformed record
C26_Witness ==
    /\ pc = "sleep"
    /\ requests = <<"swaps", "unassigned">>
    /\ responses = <<"ok", "malformed">>
    /\ swap_shifts # {}
    /\ storage._shifts # <<>>
    /\ shifts = {}

C28_CyclesLeaveTimeslotsAlone ==
    /\ [](load_recurring_timeslots(timeslotsFile) = Return(Slots))
    /\ [][Slots' = Slots /\ timeslotsFile' = timeslotsFile]_vars

\* Three cycles of a process, each of which fetched both listings, with the
\* default timeslot in the store
C28_Witness ==
    /\ CycleOver
    /\ Len(history) = 3
    /\ \A i \in 1..3 : history[i].fetched
    /\ Slots = <<get_eternal_timeslot>>

\* C29: the timeslot get_eternal_timeslot() returns accepts every shift with
\* start < end, whatever its weekday, its clock times (an end time of day
\* between 23:59:01 and 23:59:59 included) and its duration.
C29_DefaultTimeslotAcceptsAll ==
    (Returned /\ tsIn = get_eternal_timeslot) => verdict = "True"

\* C30: a polling cycle that completes with an empty valid set sends no
\* notification and attempts no claim: no take_shift call and no request to a
\* claim endpoint.
C30_EmptyValidSetIsSilent ==
    (progress = "notified" /\ valid_shifts = {}) =>
        /\ notifications = <<>>
        /\ attempts = <<>>
        /\ \A i \in 1..Len(requests) :
              requests[i] \notin {"take_swap", "take_unassigned"}

\* A completed cycle with auto-take on, stored timeslots and new shifts none
\* of which a timeslot accepts
C30_Witness ==
    /\ progress = "notified"
    /\ CycleOver
    /\ valid_shifts = {}
    /\ new_shifts # {}
    /\ Len(Slots) > 0
    /\ auto_take

\* The file of each collection, read afresh, gives what the getter of the
\* collection returns
TimeslotsAgree ==
    load_recurring_timeslots(timeslotsFile)
        = Return(get_recurring_timeslots(storage))
ShiftsAgree == load_shifts(shiftsFile) = Return(get_shifts(storage))
TokenAgrees ==
    load_token_and_cityid(tokenFile) = Return(get_token_and_cityid(storage))

\* C31: the cache of the store and its files agree after every store
\* operation: when add_recurring_timeslot, delete_recurring_timeslot or
\* save_recurring_timeslots has returned, get_recurring_timeslots() equals a
\* fresh load of the timeslot file; when add_shift or save_shifts has
\* returned, get_shifts() equals a fresh load of the shift file; when
\* save_token_and_cityid has returned, get_token_and_cityid() equals a fresh
\* load of the token file.
C31_CacheAgreesWithFiles ==
    /\ progress \in {"add_recurring_timeslot", "delete_recurring_timeslot",
                     "save_recurring_timeslots"} => TimeslotsAgree
    /\ progress \in {"add_shift", "save_shifts"} => ShiftsAgree
    /\ progress = "save_token_and_cityid" => TokenAgrees

\* C32: in the timeslot editor, choosing "Add new timeslot" (and entering
\* valid days, clocks and minimum) leaves the stored timeslots as they were
\* with the new timeslot appended, in the cache and in the timeslot file:
\* every pass of the menu that takes option 1 ends at the menu with one
\* timeslot more at the end of the list, and a fresh load of the file gives
\* that list.
C32_AddAppendsAndPersists ==
    [][(pc = "menu" /\ user_input' = Some(1)) =>
          /\ pc' = "menu"
          /\ Len(Slots') = Len(Slots) + 1
          /\ SubSeq(Slots', 1, Len(Slots)) = Slots
          /\ load_recurring_timeslots(timeslotsFile') = Return(Slots')]_vars

\* The input of a deletion was reported as invalid
ReportedInvalid == printed \in {<<MsgBadNumber>>, <<MsgNoNumber>>}

\* C33: in the timeslot editor, deleting by number k with 1 <= k <= n
\* removes the k-th listed timeslot and keeps the others in order; for any
\* other integer k, 0 and the negative numbers included, the stored
\* timeslots are left as they were and the input is reported as invalid.
C33_DeleteByNumber ==
    [][(pc = "menu" /\ user_input' = Some(2) /\ timeslot_number'.some) =>
          LET k == timeslot_number'.v
              n == Len(Slots)
          IN  IF k >= 1 /\ k <= n
              THEN /\ Slots' = SubSeq(Slots, 1, k - 1) \o SubSeq(Slots, k + 1, n)
                   /\ load_recurring_timeslots(timeslotsFile') = Return(Slots')
              ELSE /\ Slots' = Slots
                   /\ timeslotsFile' = timeslotsFile
                   /\ ReportedInvalid']_vars

\* Lines 50-53 are behind main() and the store holds no timeslot: main() is
\* at line 56, or exit(0) or an exception of line 50 ended it
PastConfirmEmpty ==
    /\ pc \in {"timeslots", "exited", "crashed"}
    /\ uncaught \in {None, Some(50)}
    /\ Len(Slots) = 0

\* C34: with auto-take on and no timeslot in the store at start-up the
\* program asks for confirmation before anything else: once lines 50-53 are
\* behind it the question was printed, and the program has either exited
\* (the answer was not "y") or goes on to the default timeslot and the
\* polling (the answer was "y"); it has not ended in any other way.
C34_AutoTakeAsksFirst ==
    (auto_take /\ PastConfirmEmpty) =>
        /\ printed = <<ConfirmPrompt>>
        /\ pc \in {"timeslots", "exited"}

====
